---- MODULE Spec2Model ----
(***************************************************************************)
(* A model of vtc-rs: the Framerate and Timecode value types, the rational *)
(* arithmetic they are built on, the drop-frame adjustment and the string  *)
(* parsers that feed the constructors.                                     *)
(*                                                                         *)
(* Rational64 values are records [n, d] kept in lowest terms with d > 0,   *)
(* as num::rational::Ratio::new leaves them.  Strings are sequences of     *)
(* one-character strings.                                                  *)
(*                                                                         *)
(* A record constructor lists its fields in the order in which their names *)
(* first occur in the module.  That is the order TLC keeps a record's      *)
(* fields in, so no worker ever has to reorder a record it shares with     *)
(* another.                                                                *)
(***************************************************************************)
EXTENDS Integers, Sequences, FiniteSets, TLC

VARIABLES op, tc, prev, other, arg, cmp, sorted, text, parsed, src, fr

vars == <<op, tc, prev, other, arg, cmp, sorted, text, parsed, src, fr>>

(***************************************************************************)
(* Bounds of the model.                                                    *)
(***************************************************************************)
\* largest frame-count magnitude a Timecode of the arithmetic model holds
MaxFrames == 8
\* largest numerator magnitude of a seconds source
MaxSecondsNumer == 4
\* largest magnitude of a tick count, in units of 2116800000 ticks
MaxTickUnits == 20
\* largest magnitude of an integer scalar, and of a rational scalar's numerator
MaxScalar == 3
\* largest frame-count magnitude of the drop-frame display model
MaxDropFrames == 3700
\* largest minutes field of a parsed timecode string
MaxMinutesField == 12
\* largest frames field of a parsed timecode string
MaxFramesField == 5
\* largest hours field of a parsed timecode string that yields a Timecode
MaxHoursField == 8
\* largest whole number handed to a Framerate constructor
MaxTimebase == 510
\* largest multiple of 1000 used as the numerator of an n/1001 source
MaxThousands == 62

(***************************************************************************)
(* Integer helpers: Rust's i64 `/` and `%` truncate toward zero,           *)
(* num::integer::div_floor and div_mod_floor round toward minus infinity.  *)
(***************************************************************************)
Abs(x) == IF x < 0 THEN -x ELSE x

RECURSIVE GCD(_, _)
GCD(a, b) == IF b = 0 THEN a ELSE GCD(b, a % b)

LCM(a, b) == (a \div GCD(a, b)) * b

TruncDiv(a, b) ==
    IF (a >= 0) = (b > 0) THEN Abs(a) \div Abs(b) ELSE -(Abs(a) \div Abs(b))

TruncRem(a, b) == a - b * TruncDiv(a, b)

FloorDiv(a, b) == IF b > 0 THEN a \div b ELSE (-a) \div (-b)

FloorMod(a, b) == a - b * FloorDiv(a, b)

(***************************************************************************)
(* num::Rational64                                                         *)
(***************************************************************************)
\* Ratio::new: reduce to lowest terms and keep the denominator positive
RatNew(n, d) ==
    LET g == GCD(Abs(n), Abs(d))
    IN  IF d < 0 THEN [n |-> -(n \div g), d |-> (-d) \div g]
                 ELSE [n |-> n \div g, d |-> d \div g]

RatInt(n) == [n |-> n, d |-> 1]

RatZero == RatInt(0)

RatIsNegative(a) == a.n < 0

RatIsInteger(a) == a.d = 1

RatNeg(a) == [n |-> -a.n, d |-> a.d]

RatAbs(a) == [n |-> Abs(a.n), d |-> a.d]

\* Ratio::inv (the caller guarantees a # 0)
RatInv(a) == IF a.n < 0 THEN [n |-> -a.d, d |-> -a.n] ELSE [n |-> a.d, d |-> a.n]

RatAdd(a, b) ==
    IF a.d = b.d THEN RatNew(a.n + b.n, a.d)
    ELSE LET l == LCM(a.d, b.d)
         IN  RatNew(a.n * (l \div a.d) + b.n * (l \div b.d), l)

RatSub(a, b) ==
    IF a.d = b.d THEN RatNew(a.n - b.n, a.d)
    ELSE LET l == LCM(a.d, b.d)
         IN  RatNew(a.n * (l \div a.d) - b.n * (l \div b.d), l)

\* Ratio::mul cross-reduces before multiplying
RatMul(a, b) ==
    LET gad == GCD(Abs(a.n), b.d)
        gbc == GCD(a.d, Abs(b.n))
    IN  IF a.n = 0 \/ b.n = 0 THEN RatZero
        ELSE RatNew((a.n \div gad) * (b.n \div gbc), (a.d \div gbc) * (b.d \div gad))

\* Ratio::div cross-reduces before multiplying (the caller guarantees b # 0)
RatDiv(a, b) ==
    LET gac == GCD(Abs(a.n), Abs(b.n))
        gbd == GCD(a.d, b.d)
    IN  IF a.n = 0 THEN RatZero
        ELSE RatNew((a.n \div gac) * (b.d \div gbd), (a.d \div gbd) * (b.n \div gac))

\* Ratio::rem: the remainder of the numerators over a common denominator,
\* truncated like the integer `%` (it takes the sign of the dividend)
RatRem(a, b) ==
    IF a.d = b.d THEN RatNew(TruncRem(a.n, b.n), a.d)
    ELSE LET l == LCM(a.d, b.d)
         IN  RatNew(TruncRem(a.n * (l \div a.d), b.n * (l \div b.d)), l)

\* Ratio::trunc / Ratio::to_integer
RatToInteger(a) == TruncDiv(a.n, a.d)

RatFloor(a) == RatInt(FloorDiv(a.n, a.d))

\* Ratio::round: nearest integer, halves away from zero
RatRound(a) ==
    LET fn == Abs(TruncRem(a.n, a.d))
        halfOrLarger == IF a.d % 2 = 0 THEN fn >= a.d \div 2
                        ELSE fn >= (a.d \div 2) + 1
        t == TruncDiv(a.n, a.d)
    IN  IF halfOrLarger THEN (IF a.n >= 0 THEN RatInt(t + 1) ELSE RatInt(t - 1))
        ELSE RatInt(t)

IntCmp(x, y) == IF x = y THEN "Equal" ELSE IF x < y THEN "Less" ELSE "Greater"

Reverse(o) == IF o = "Less" THEN "Greater" ELSE IF o = "Greater" THEN "Less" ELSE "Equal"

\* Ord::cmp for Ratio: equal denominators compare the numerators, equal
\* numerators compare the denominators inversely, anything else compares
\* the floored integer parts and then the reciprocals of the remainders
RECURSIVE RatCmp(_, _)
RatCmp(a, b) ==
    IF a.d = b.d THEN IntCmp(a.n, b.n)
    ELSE IF a.n = b.n
         THEN (IF a.n = 0 THEN "Equal"
               ELSE IF a.n < 0 THEN IntCmp(a.d, b.d) ELSE Reverse(IntCmp(a.d, b.d)))
    ELSE LET a_int == FloorDiv(a.n, a.d)
             a_rem == FloorMod(a.n, a.d)
             b_int == FloorDiv(b.n, b.d)
             b_rem == FloorMod(b.n, b.d)
         IN  IF a_int # b_int THEN IntCmp(a_int, b_int)
             ELSE IF a_rem = 0 /\ b_rem = 0 THEN "Equal"
             ELSE IF a_rem = 0 THEN "Less"
             ELSE IF b_rem = 0 THEN "Greater"
             ELSE Reverse(RatCmp([n |-> a.d, d |-> a_rem], [n |-> b.d, d |-> b_rem]))

(***************************************************************************)
(* consts.rs                                                               *)
(***************************************************************************)
SECONDS_PER_MINUTE_I64 == 60

SECONDS_PER_HOUR_I64 == SECONDS_PER_MINUTE_I64 * 60

SECONDS_PER_MINUTE == RatInt(60)

PERFS_PER_FOOT_35 == 64

PERFS_PER_6INCHES_16 == 20

SECONDS_PER_HOUR == RatInt(60 * 60)

(***************************************************************************)
(* Framerate: [value, ntsc], ntsc one of "None", "NonDropFrame",           *)
(* "DropFrame".                                                            *)
(***************************************************************************)
NtscKinds == {"None", "NonDropFrame", "DropFrame"}

is_ntsc(ntsc) == ntsc # "None"

Framerate(value, ntsc) == [ntsc |-> ntsc, value |-> value]

playback(rate) == rate.value

\* Framerate::timebase
timebase(rate) == IF is_ntsc(rate.ntsc) THEN RatRound(rate.value) ELSE rate.value

\* Framerate::drop_frames_per_minute (Some only for DropFrame; the callers
\* unwrap it under a DropFrame rate): round(timebase * 0.066666) in f64,
\* computed here on integers with halves rounded up
drop_frames_per_minute(rate) ==
    LET tb == RatToInteger(RatRound(timebase(rate)))
    IN  (tb * 66666 * 2 + 1000000) \div 2000000

\* framerate::rates
F23_98 == Framerate(RatNew(24000, 1001), "NonDropFrame")

F24 == Framerate(RatInt(24), "None")

F29_97_DF == Framerate(RatNew(30000, 1001), "DropFrame")

F48 == Framerate(RatInt(48), "None")

\* Framerate::with_playback(11, Ntsc::None): a frame is not a whole number of
\* Premiere ticks
F11 == Framerate(RatInt(11), "None")

\* Framerate::with_timebase(240, Ntsc::NonDropFrame)
F239_76 == Framerate(RatNew(240000, 1001), "NonDropFrame")

F59_94_DF == Framerate(RatNew(60000, 1001), "DropFrame")

DROP_DIVISOR_PLAYBACK == RatNew(30000, 1001)

DROP_DIVISOR_TIMEBASE == RatInt(30)

\* mutant: the drop-frame rule is never tested
validate_ntsc_value_no_drop_rule(value, ntsc, is_base) ==
    IF RatIsNegative(value) THEN "Negative"
    ELSE IF ~is_ntsc(ntsc) THEN "Ok"
    ELSE IF is_base /\ ~RatIsInteger(value) THEN "Ntsc"
    ELSE IF ~is_base /\ value.d # 1001 THEN "Ntsc"
    ELSE "Ok"

\* mutant: the drop-frame rule is tested before the NTSC rule
validate_ntsc_value_drop_first(value, ntsc, is_base) ==
    IF RatIsNegative(value) THEN "Negative"
    ELSE IF ~is_ntsc(ntsc) THEN "Ok"
    ELSE IF ntsc = "DropFrame"
            /\ RatRem(value, IF is_base THEN DROP_DIVISOR_TIMEBASE ELSE DROP_DIVISOR_PLAYBACK)
                   # RatZero
         THEN "DropFrame"
    ELSE IF is_base /\ ~RatIsInteger(value) THEN "Ntsc"
    ELSE IF ~is_base /\ value.d # 1001 THEN "Ntsc"
    ELSE "Ok"

\* validate_ntsc_value: "Ok", or the kind of FramerateParseError
validate_ntsc_value(value, ntsc, is_base) ==
    IF RatIsNegative(value) THEN "Negative"
    ELSE IF ~is_ntsc(ntsc) THEN "Ok"
    ELSE IF is_base /\ ~RatIsInteger(value) THEN "Ntsc"
    ELSE IF ~is_base /\ value.d # 1001 THEN "Ntsc"
    ELSE IF ntsc # "DropFrame" THEN "Ok"
    ELSE IF RatRem(value, IF is_base THEN DROP_DIVISOR_TIMEBASE ELSE DROP_DIVISOR_PLAYBACK)
            # RatZero
         THEN "DropFrame"
    ELSE "Ok"

\* a FramerateParseResult: [ok, err, rate]
RateOk(rate) == [rate |-> rate, ok |-> TRUE, err |-> ""]

RateErr(kind) == [rate |-> F24, ok |-> FALSE, err |-> kind]

\* mutant: an NTSC timebase is kept as the playback rate
RationalToPlayback_uncoerced(value, ntsc, is_timebase) ==
    LET v == validate_ntsc_value(value, ntsc, is_timebase)
    IN  IF v # "Ok" THEN [value |-> RatZero, ok |-> FALSE, err |-> v]
        ELSE [value |-> value, ok |-> TRUE, err |-> ""]

\* impl FramerateSource for Rational64
RationalToPlayback(value, ntsc, is_timebase) ==
    LET v == validate_ntsc_value(value, ntsc, is_timebase)
    IN  IF v # "Ok" THEN [value |-> RatZero, ok |-> FALSE, err |-> v]
        ELSE IF is_timebase /\ is_ntsc(ntsc)
             THEN [value |-> RatDiv(RatMul(RatRound(value), RatInt(1000)), RatInt(1001)),
                   ok |-> TRUE,
                   err |-> ""]
        ELSE [value |-> value, ok |-> TRUE, err |-> ""]

\* impl FramerateSource for f64, on a float whose exact value is the rational
\* `value` (Rational64::from_f64 is exact on such a float)
F64ToPlayback(value, ntsc, is_timebase) ==
    IF ~is_ntsc(ntsc) THEN [value |-> RatZero, ok |-> FALSE, err |-> "Imprecise"]
    ELSE LET rational == IF ~is_timebase /\ is_ntsc(ntsc)
                         THEN RatDiv(RatMul(RatRound(value), RatInt(1000)), RatInt(1001))
                         ELSE value
         IN  RationalToPlayback(rational, ntsc, is_timebase)

(***************************************************************************)
(* Timecode: [seconds, rate]                                               *)
(***************************************************************************)
Timecode(seconds, rate) == [rate |-> rate, seconds |-> seconds]

\* mutant: the seconds are stored as given, never rounded to a frame
round_seconds_to_frame_unrounded(seconds, rate) == seconds

\* mutant: the frame count is rounded down
round_seconds_to_frame_floor(seconds, rate) ==
    RatDiv(RatFloor(RatMul(seconds, playback(rate))), playback(rate))

\* timecode_parse::round_seconds_to_frame
round_seconds_to_frame(seconds, rate) ==
    IF RatRem(seconds, RatInv(playback(rate))) # RatZero
    THEN RatDiv(RatRound(RatMul(seconds, playback(rate))), playback(rate))
    ELSE seconds

\* mutant: the seconds given are stored as they are
with_rational_seconds_as_given(seconds, rate) == Timecode(seconds, rate)

\* Timecode::with_rational_seconds
with_rational_seconds(seconds, rate) == Timecode(round_seconds_to_frame(seconds, rate), rate)

\* mutant: the frame count is multiplied by the playback rate, not divided
with_i64_frames_times(frame_count, rate) ==
    with_rational_seconds(RatMul(RatInt(frame_count), playback(rate)), rate)

\* Timecode::with_i64_frames
with_i64_frames(frame_count, rate) ==
    with_rational_seconds(RatDiv(RatInt(frame_count), playback(rate)), rate)

\* Timecode::frames
frames(t) ==
    LET rational_frames == RatMul(t.seconds, playback(t.rate))
    IN  IF rational_frames.d = 1 THEN rational_frames.n
        ELSE RatToInteger(RatRound(rational_frames))

\* mutant: the seconds are kept, not the frame count
rebase_keeps_seconds(t, rate) == with_rational_seconds(t.seconds, rate)

\* Timecode::rebase
rebase(t, rate) == with_i64_frames(frames(t), rate)

\* Timecode::abs
TcAbs(t) == with_rational_seconds(RatAbs(t.seconds), t.rate)

\* mutant: the seconds keep their sign
TcNeg_keeps_sign(t) == with_rational_seconds(t.seconds, t.rate)

\* impl Neg for Timecode
TcNeg(t) == with_rational_seconds(RatNeg(t.seconds), t.rate)

\* mutant: the sum is taken at the right operand's rate
TcAdd_at_rhs_rate(a, b) == with_rational_seconds(RatAdd(a.seconds, b.seconds), b.rate)

\* impl Add for Timecode
TcAdd(a, b) == with_rational_seconds(RatAdd(a.seconds, b.seconds), a.rate)

\* mutant: the left operand is taken from the right one
TcSub_reversed(a, b) == with_rational_seconds(RatSub(b.seconds, a.seconds), a.rate)

\* impl Sub for Timecode
TcSub(a, b) == with_rational_seconds(RatSub(a.seconds, b.seconds), a.rate)

\* mutant: the scaled frame count is floored
TcMulRational_floor(t, rhs) ==
    with_i64_frames(RatToInteger(RatFloor(RatMul(RatInt(frames(t)), rhs))), t.rate)

\* impl Mul<Rational64> for Timecode
TcMulRational(t, rhs) == with_rational_seconds(RatMul(t.seconds, rhs), t.rate)

\* impl Mul<i64> for Timecode
TcMulI64(t, rhs) == with_rational_seconds(RatMul(t.seconds, RatInt(rhs)), t.rate)

\* impl Div<Rational64> for Timecode
TcDivRational(t, rhs) ==
    with_i64_frames(RatToInteger(RatFloor(RatDiv(RatInt(frames(t)), rhs))), t.rate)

\* impl Rem<Rational64> for Timecode
TcRemRational(t, rhs) ==
    with_i64_frames(RatToInteger(RatRound(RatRem(RatInt(frames(t)), rhs))), t.rate)

\* impl Div<i64> for Timecode
TcDivI64(t, rhs) == with_i64_frames(TruncDiv(frames(t), rhs), t.rate)

\* impl Rem<i64> for Timecode
TcRemI64(t, rhs) == with_i64_frames(TruncRem(frames(t), rhs), t.rate)

\* A scalar operand: [kind, n, d] with kind "i64", "f64" or "rational".  An
\* f64 operand is converted by Rational64::from_f64 and then takes the
\* Rational64 implementation; the f64 scalars of the model are dyadic
\* (d a power of two), which from_f64 converts exactly.
ScalarRat(s) == RatNew(s.n, s.d)

TcMul(t, s) == IF s.kind = "i64" THEN TcMulI64(t, s.n) ELSE TcMulRational(t, ScalarRat(s))

\* impl Mul<Timecode> for f64 and for i64: rhs * self
ScalarMul(s, t) == TcMul(t, s)

TcDiv(t, s) == IF s.kind = "i64" THEN TcDivI64(t, s.n) ELSE TcDivRational(t, ScalarRat(s))

TcRem(t, s) == IF s.kind = "i64" THEN TcRemI64(t, s.n) ELSE TcRemRational(t, ScalarRat(s))

\* mutant: Timecodes are ordered by frame count
TcCmp_by_frames(a, b) == IntCmp(frames(a), frames(b))

\* impl PartialEq / PartialOrd / Ord for Timecode
TcCmp(a, b) == RatCmp(a.seconds, b.seconds)

TcEq(a, b) == TcCmp(a, b) = "Equal"

TcLt(a, b) == TcCmp(a, b) = "Less"

TcGt(a, b) == TcCmp(a, b) = "Greater"

\* slice::sort on three Timecodes by Ord (insertion sort, stable)
Insert(x, s) ==
    LET k == Cardinality({i \in 1..Len(s) : ~TcLt(x, s[i])})
    IN  SubSeq(s, 1, k) \o <<x>> \o SubSeq(s, k + 1, Len(s))

SortTimecodes(s) == Insert(s[3], Insert(s[2], <<s[1]>>))

\* PREMIERE_TICKS_PER_SECOND is 254016000000 = 120 * 2116800000.  Tick
\* counts are held in units of 2116800000 ticks, 120 units to the second, so
\* that they stay inside the checker's integers.
TICK_UNITS_PER_SECOND == 120

\* Timecode::with_premiere_ticks for a tick count of `units` * 2116800000
with_premiere_ticks(units, rate) ==
    with_rational_seconds(RatDiv(RatInt(units), RatInt(TICK_UNITS_PER_SECOND)), rate)

(***************************************************************************)
(* Strings: sequences of one-character strings.                            *)
(***************************************************************************)
Digits == <<"0", "1", "2", "3", "4", "5", "6", "7", "8", "9">>

IsDigit(c) == \E i \in 1..10 : Digits[i] = c

DigitVal(c) == (CHOOSE i \in 1..10 : Digits[i] = c) - 1

\* str::parse::<i64> on a string of digits (convert_tc_int)
RECURSIVE convert_tc_int(_)
convert_tc_int(g) ==
    IF g = <<>> THEN 0
    ELSE convert_tc_int(SubSeq(g, 1, Len(g) - 1)) * 10 + DigitVal(g[Len(g)])

\* the digits of n >= 0
RECURSIVE FormatInt(_)
FormatInt(n) ==
    IF n < 10 THEN <<Digits[n + 1]>> ELSE FormatInt(n \div 10) \o <<Digits[(n % 10) + 1]>>

\* format!("{:02}", n)
Fmt02(n) ==
    IF n < 0 THEN <<"-">> \o FormatInt(-n)
    ELSE IF n < 10 THEN <<"0">> \o FormatInt(n)
    ELSE FormatInt(n)

\* i64::from_str: an optional sign and at least one digit
I64FromStr(s) ==
    LET signed == s # <<>> /\ Head(s) \in {"-", "+"}
        digits == IF signed THEN Tail(s) ELSE s
        ok == digits # <<>> /\ \A i \in 1..Len(digits) : IsDigit(digits[i])
    IN  [n |-> IF ~ok THEN 0
               ELSE IF signed /\ Head(s) = "-" THEN -convert_tc_int(digits)
               ELSE convert_tc_int(digits),
         ok |-> ok]

\* the index of the first occurrence of c in s, 0 when there is none
IndexOf(s, c) ==
    IF \E i \in 1..Len(s) : s[i] = c
    THEN CHOOSE i \in 1..Len(s) : s[i] = c /\ \A j \in 1..(i - 1) : s[j] # c
    ELSE 0

\* Rational64::from_str: "n" or "n/d", split at the first '/', each side an
\* integer, a zero denominator refused
RationalFromStr(s) ==
    LET k == IndexOf(s, "/")
        num == I64FromStr(IF k = 0 THEN s ELSE SubSeq(s, 1, k - 1))
        den == IF k = 0 THEN [n |-> 1, ok |-> TRUE] ELSE I64FromStr(SubSeq(s, k + 1, Len(s)))
        ok == num.ok /\ den.ok /\ den.n # 0
    IN  [value |-> IF ok THEN RatNew(num.n, den.n) ELSE RatZero, ok |-> ok]

\* f64::from_str on the decimal shape "[sign]digits.digit"; the decimals of
\* the model end in .0 or .5, which an f64 holds exactly
F64FromStr(s) ==
    LET k == IndexOf(s, ".")
        whole == I64FromStr(IF k = 0 THEN s ELSE SubSeq(s, 1, k - 1))
        ok == k > 1 /\ k = Len(s) - 1 /\ whole.ok /\ IsDigit(s[Len(s)])
        tenths == IF ok THEN DigitVal(s[Len(s)]) ELSE 0
        negative == s # <<>> /\ Head(s) = "-"
    IN  [value |-> IF ~ok THEN RatZero
                   ELSE IF negative THEN RatNew(whole.n * 10 - tenths, 10)
                   ELSE RatNew(whole.n * 10 + tenths, 10),
         ok |-> ok]

\* impl FramerateSource for &str
StrToPlayback(s, ntsc, is_timebase) ==
    IF RationalFromStr(s).ok THEN RationalToPlayback(RationalFromStr(s).value, ntsc, is_timebase)
    ELSE IF I64FromStr(s).ok THEN RationalToPlayback(RatInt(I64FromStr(s).n), ntsc, is_timebase)
    ELSE IF F64FromStr(s).ok THEN F64ToPlayback(F64FromStr(s).value, ntsc, is_timebase)
    ELSE [value |-> RatZero, ok |-> FALSE, err |-> "Conversion"]

\* A framerate source: [kind, n, d, text] with kind "i64" (the integer n),
\* "rational" (Rational64::new(n, d)) or "str" (the string text).
\* FramerateSource::to_playback dispatches on the source's type.
to_playback(source, ntsc, is_timebase) ==
    IF source.kind = "i64" THEN RationalToPlayback(RatInt(source.n), ntsc, is_timebase)
    ELSE IF source.kind = "rational"
         THEN RationalToPlayback(RatNew(source.n, source.d), ntsc, is_timebase)
    ELSE IF source.kind = "f64"
         THEN F64ToPlayback(RatNew(source.n, source.d), ntsc, is_timebase)
    ELSE StrToPlayback(source.text, ntsc, is_timebase)

\* the FramerateParseResult of a constructor: [ok, err, rate]
RateFromPlayback(r, ntsc) ==
    IF r.ok THEN RateOk(Framerate(r.value, ntsc)) ELSE RateErr(r.err)

\* Framerate::with_playback
with_playback(source, ntsc) == RateFromPlayback(to_playback(source, ntsc, FALSE), ntsc)

\* Framerate::with_timebase
with_timebase(source, ntsc) == RateFromPlayback(to_playback(source, ntsc, TRUE), ntsc)

(***************************************************************************)
(* Display: sections() and timecode()                                      *)
(***************************************************************************)
\* timecode.rs frame_num_to_drop_num
frame_num_to_drop_num(frame_number, rate) ==
    LET tb == RatToInteger(timebase(rate))
        frames_per_minute == tb * 60
        drop_frames == drop_frames_per_minute(rate)
        frames_per_minute_drop == (tb * 60) - drop_frames
        frames_per_10minutes_drop == frames_per_minute_drop * 9 + frames_per_minute
        tens_of_minutes == FloorDiv(frame_number, frames_per_10minutes_drop)
        rem_frames == FloorMod(frame_number, frames_per_10minutes_drop)
        adjustment == 9 * drop_frames * tens_of_minutes
    IN  IF rem_frames < frames_per_minute THEN frame_number + adjustment
        ELSE LET minutes_drop == TruncDiv(rem_frames - tb, frames_per_minute_drop)
             IN  frame_number + adjustment + drop_frames + minutes_drop * drop_frames

\* Timecode::sections
sections(t) ==
    LET abs_frames == Abs(frames(t))
        tb == timebase(t.rate)
        f0 == IF t.rate.ntsc = "DropFrame"
              THEN RatInt(frame_num_to_drop_num(abs_frames, t.rate))
              ELSE RatInt(abs_frames)
        frames_per_minute == RatMul(tb, SECONDS_PER_MINUTE)
        frames_per_hour == RatMul(tb, SECONDS_PER_HOUR)
        hours == RatFloor(RatDiv(f0, frames_per_hour))
        f1 == RatRem(f0, frames_per_hour)
        minutes == RatFloor(RatDiv(f1, frames_per_minute))
        f2 == RatRem(f1, frames_per_minute)
        seconds == RatFloor(RatDiv(f2, tb))
        f3 == RatRound(RatRem(f2, tb))
    IN  [seconds |-> RatToInteger(seconds),
         frames |-> RatToInteger(f3),
         negative |-> RatIsNegative(t.seconds),
         hours |-> RatToInteger(hours),
         minutes |-> RatToInteger(minutes)]

\* Timecode::timecode
timecode(t) ==
    LET s == sections(t)
        sign == IF RatIsNegative(t.seconds) THEN <<"-">> ELSE <<>>
        frame_sep == IF t.rate.ntsc = "DropFrame" THEN ";" ELSE ":"
    IN  sign \o Fmt02(s.hours) \o <<":">> \o Fmt02(s.minutes) \o <<":">>
             \o Fmt02(s.seconds) \o <<frame_sep>> \o Fmt02(s.frames)

(***************************************************************************)
(* Premiere ticks.  A tick count runs to 10^14 and more, beyond the        *)
(* checker's integers, so it is held as a wide number: a sign and the      *)
(* base-100 limbs of the magnitude, least significant first, <<>> for 0.   *)
(* The operations below are the i128 arithmetic of the source on limbs;    *)
(* a small operand stays below 2^31 / 100.                                 *)
(***************************************************************************)
\* the lowest limb of n, and what n carries to the next limb
WideLimb(n) == n % 100

WideCarry(n) == n \div 100

RECURSIVE WideOfInt(_)
WideOfInt(n) == IF n = 0 THEN <<>> ELSE <<WideLimb(n)>> \o WideOfInt(WideCarry(n))

RECURSIVE WideToInt(_)
WideToInt(w) == IF w = <<>> THEN 0 ELSE Head(w) + 100 * WideToInt(Tail(w))

RECURSIVE WideMulCarry(_, _, _)
WideMulCarry(w, m, carry) ==
    IF w = <<>> THEN WideOfInt(carry)
    ELSE <<WideLimb(Head(w) * m + carry)>>
            \o WideMulCarry(Tail(w), m, WideCarry(Head(w) * m + carry))

\* w * m for a small m
WideMulSmall(w, m) == IF m = 0 THEN <<>> ELSE WideMulCarry(w, m, 0)

RECURSIVE WideAddCarry(_, _, _)
WideAddCarry(a, b, carry) ==
    IF a = <<>> /\ b = <<>> THEN WideOfInt(carry)
    ELSE LET x == IF a = <<>> THEN 0 ELSE Head(a)
             y == IF b = <<>> THEN 0 ELSE Head(b)
         IN  <<WideLimb(x + y + carry)>>
                \o WideAddCarry(IF a = <<>> THEN <<>> ELSE Tail(a),
                                IF b = <<>> THEN <<>> ELSE Tail(b),
                                WideCarry(x + y + carry))

WideAdd(a, b) == WideAddCarry(a, b, 0)

\* long division by a small m, from the most significant limb down: the
\* quotient limbs and the remainder
RECURSIVE WideDivStep(_, _, _, _)
WideDivStep(w, i, m, r) ==
    IF i = 0 THEN [r |-> r, q |-> <<>>]
    ELSE LET cur == r * 100 + w[i]
             rest == WideDivStep(w, i - 1, m, cur % m)
         IN  [r |-> rest.r, q |-> rest.q \o <<cur \div m>>]

RECURSIVE WideTrim(_)
WideTrim(q) ==
    IF q # <<>> /\ q[Len(q)] = 0 THEN WideTrim(SubSeq(q, 1, Len(q) - 1)) ELSE q

\* floor(w / m) for a small m > 0
WideDivSmall(w, m) == WideTrim(WideDivStep(w, Len(w), m, 0).q)

\* w mod m for a small m > 0
WideRemSmall(w, m) == WideDivStep(w, Len(w), m, 0).r

\* a <= b
RECURSIVE WideLeq(_, _)
WideLeq(a, b) ==
    IF Len(a) # Len(b) THEN Len(a) < Len(b)
    ELSE IF a = <<>> THEN TRUE
    ELSE IF a[Len(a)] # b[Len(b)] THEN a[Len(a)] < b[Len(b)]
    ELSE WideLeq(SubSeq(a, 1, Len(a) - 1), SubSeq(b, 1, Len(b) - 1))

\* an i64 tick count
Ticks(negative, limbs) == [kind |-> "ticks", negative |-> negative /\ limbs # <<>>, limbs |-> limbs]

\* the wide number of a decimal numeral
RECURSIVE WideOfDecimal(_)
WideOfDecimal(s) ==
    IF s = <<>> THEN <<>>
    ELSE WideAdd(WideMulSmall(WideOfDecimal(SubSeq(s, 1, Len(s) - 1)), 10),
                 WideOfInt(DigitVal(s[Len(s)])))

\* PREMIERE_TICKS_PER_SECOND: 254016000000 = 2^12 * 3^4 * 5^6 * 7^2
PREMIERE_TICKS_PER_SECOND ==
    WideOfDecimal(<<"2", "5", "4", "0", "1", "6", "0", "0", "0", "0", "0", "0">>)

\* the prime powers of PREMIERE_TICKS_PER_SECOND
TickPrimes == <<2, 3, 5, 7>>

TickExponents == <<12, 4, 6, 2>>

RECURSIVE Power(_, _)
Power(b, e) == IF e = 0 THEN 1 ELSE b * Power(b, e - 1)

\* w with the prime p divided out of it up to e times, and the times left
RECURSIVE StripPrime(_, _, _)
StripPrime(w, p, e) ==
    IF e = 0 \/ WideRemSmall(w, p) # 0 THEN [w |-> w, left |-> e]
    ELSE StripPrime(WideDivSmall(w, p), p, e - 1)

RECURSIVE StripPrimes(_, _)
StripPrimes(w, i) ==
    IF i > Len(TickPrimes) THEN [w |-> w, left |-> <<>>]
    ELSE LET one == StripPrime(w, TickPrimes[i], TickExponents[i])
             rest == StripPrimes(one.w, i + 1)
         IN  [w |-> rest.w, left |-> <<Power(TickPrimes[i], one.left)>> \o rest.left]

\* Ratio::<i128>::from_integer(tick_count) / PREMIERE_TICKS_PER_SECOND in
\* lowest terms: the numerator, and the denominator as its prime powers
\* (the greatest common divisor holds each prime of the constant as often
\* as the tick count does)
TicksToSeconds(limbs) ==
    IF limbs = <<>> THEN [w |-> <<>>, left |-> <<1>>]
    ELSE StripPrimes(limbs, 1)

RECURSIVE WideMulAll(_, _)
WideMulAll(w, factors) ==
    IF factors = <<>> THEN w ELSE WideMulAll(WideMulSmall(w, Head(factors)), Tail(factors))

RECURSIVE WideDivAll(_, _)
WideDivAll(w, factors) ==
    IF factors = <<>> THEN w ELSE WideDivAll(WideDivSmall(w, Head(factors)), Tail(factors))

\* y / (the product of the small factors) to the nearest integer, a tie
\* going up: Ratio::round on a magnitude
WideRound(y, factors) ==
    WideDivAll(WideAdd(WideMulSmall(y, 2), WideMulAll(<<1>>, factors)), <<2>> \o factors)

\* mutant: the ticks are cut off, not rounded
premiere_ticks_truncated(t) ==
    Ticks(t.seconds.n < 0,
          WideDivSmall(WideMulSmall(PREMIERE_TICKS_PER_SECOND, Abs(t.seconds.n)), t.seconds.d))

\* Timecode::premiere_ticks
premiere_ticks(t) ==
    Ticks(t.seconds.n < 0,
          WideRound(WideMulSmall(PREMIERE_TICKS_PER_SECOND, Abs(t.seconds.n)), <<t.seconds.d>>))

\* Timecode::with_premiere_ticks on an i64 source: the seconds of the ticks
\* are rounded to a whole frame by with_seconds.  The frame count is
\* (numerator * playback numerator) / (denominator * playback denominator)
\* rounded, and the seconds are that count divided by the playback rate,
\* which is also the value round_seconds_to_frame keeps when the seconds
\* are a whole frame already.
with_premiere_ticks_i64(ticks, rate) ==
    LET seconds128 == TicksToSeconds(ticks.limbs)
        count == WideToInt(WideRound(WideMulSmall(seconds128.w, playback(rate).n),
                                     seconds128.left \o <<playback(rate).d>>))
    IN  Timecode(RatDiv(RatInt(IF ticks.negative THEN -count ELSE count), playback(rate)), rate)

(***************************************************************************)
(* FilmFormat and feet_and_frames()                                        *)
(***************************************************************************)
FilmFormats == {"FF35mm4perf", "FF35mm3perf", "FF35mm2perf", "FF16mm"}

\* FilmFormat::perfs_per_foot
perfs_per_foot(format) ==
    IF format = "FF16mm" THEN PERFS_PER_6INCHES_16 ELSE PERFS_PER_FOOT_35

\* FilmFormat::perfs_per_frame
perfs_per_frame(format) ==
    IF format = "FF16mm" THEN 1
    ELSE IF format = "FF35mm4perf" THEN 4
    ELSE IF format = "FF35mm3perf" THEN 3
    ELSE 2

\* FilmFormat::footage_modulus_perf_count: the perforations after which
\* frames and feet line up again
footage_modulus_perf_count(format) == LCM(perfs_per_foot(format), perfs_per_frame(format))

\* FilmFormat::footage_modulus_frame_count
footage_modulus_frame_count(format) ==
    footage_modulus_perf_count(format) \div perfs_per_frame(format)

\* FilmFormat::footage_modulus_footage_count
footage_modulus_footage_count(format) ==
    footage_modulus_perf_count(format) \div perfs_per_foot(format)

\* FilmFormat::allows_perf_field: only 3-perf footage carries a perf suffix
allows_perf_field(format) == format = "FF35mm3perf"

\* Timecode::feet_and_frames
feet_and_frames(t, rep) ==
    LET p == perfs_per_frame(rep)
        P == perfs_per_foot(rep)
        perfs == Abs(frames(t) * p)
        feet == FloorDiv(perfs, P)
        frame_field == FloorDiv(FloorMod(perfs, P), p)
        sign == IF RatIsNegative(t.seconds) THEN <<"-">> ELSE <<>>
    IN  IF TruncRem(P, p) # 0
        THEN sign \o FormatInt(feet) \o <<"+">> \o Fmt02(frame_field)
                  \o <<".">> \o FormatInt(TruncRem(feet, p))
        ELSE sign \o FormatInt(feet) \o <<"+">> \o Fmt02(frame_field)

(***************************************************************************)
(* Parsing a timecode string into a frame count                            *)
(***************************************************************************)
\* the separator class [:|;] of TIMECODE_REGEX
IsSep(c) == c \in {":", "|", ";"}

\* the runs of characters between separators
RECURSIVE SplitSections(_)
SplitSections(s) ==
    IF s = <<>> THEN << <<>> >>
    ELSE LET r == SplitSections(Tail(s))
         IN  IF IsSep(Head(s)) THEN << <<>> >> \o r
             ELSE << <<Head(s)>> \o r[1] >> \o Tail(r)

\* TIMECODE_REGEX.captures: an optional '-', up to three "digits separator"
\* groups, then the digits of the frames group
TIMECODE_REGEX(s) ==
    LET negative == s # <<>> /\ Head(s) = "-"
        body == IF negative THEN Tail(s) ELSE s
        groups == SplitSections(body)
        ok == /\ Len(groups) \in 1..4
              /\ \A i \in 1..Len(groups) :
                    /\ groups[i] # <<>>
                    /\ \A j \in 1..Len(groups[i]) : IsDigit(groups[i][j])
    IN  [negative |-> negative, groups |-> groups, matched |-> ok]

\* a FramesSourceResult: [ok, err, frames]
FramesOk(n) == [ok |-> TRUE, err |-> "", frames |-> n]

FramesErr(kind) == [ok |-> FALSE, err |-> kind, frames |-> 0]

\* mutant: a frame number that drop-frame skips is accepted and adjusted
\* like any other
drop_frame_tc_adjustment_clamped(sec, rate) ==
    LET drop_frames == drop_frames_per_minute(rate)
        total_minutes == 60 * sec.hours + sec.minutes
    IN  FramesOk(-(drop_frames * (total_minutes - TruncDiv(total_minutes, 10))))

\* source_frames.rs drop_frame_tc_adjustment
drop_frame_tc_adjustment(sec, rate) ==
    LET drop_frames == drop_frames_per_minute(rate)
        has_bad_frames == sec.frames < drop_frames
        is_tenth_minute == TruncRem(sec.minutes, 10) = 0
        is_minute_boundary == sec.seconds = 0
        total_minutes == 60 * sec.hours + sec.minutes
        adjustment == drop_frames * (total_minutes - TruncDiv(total_minutes, 10))
    IN  IF has_bad_frames /\ is_minute_boundary /\ ~is_tenth_minute
        THEN FramesErr("DropFrameValue")
        ELSE FramesOk(-adjustment)


\* mutant: the sections are read from the front, hours first, so that a
\* missing section is a trailing one
parse_timecode_string_from_front(matched, rate) ==
    LET g == matched.groups
        k == Len(g)
        hours == IF k >= 2 THEN convert_tc_int(g[1]) ELSE 0
        minutes == IF k >= 3 THEN convert_tc_int(g[2]) ELSE 0
        seconds == IF k >= 4 THEN convert_tc_int(g[3]) ELSE 0
        total_seconds == seconds + minutes * SECONDS_PER_MINUTE_I64
                                 + hours * SECONDS_PER_HOUR_I64
        n == RatToInteger(RatRound(RatAdd(RatMul(RatInt(total_seconds), timebase(rate)),
                                          RatInt(convert_tc_int(g[k])))))
    IN  FramesOk(IF matched.negative THEN -n ELSE n)

\* source_frames.rs parse_timecode_string
parse_timecode_string(matched, rate) ==
    LET g == matched.groups
        k == Len(g)
        frame_field == convert_tc_int(g[k])
        seconds == IF k >= 2 THEN convert_tc_int(g[k - 1]) ELSE 0
        minutes == IF k >= 3 THEN convert_tc_int(g[k - 2]) ELSE 0
        hours == IF k >= 4 THEN convert_tc_int(g[k - 3]) ELSE 0
        is_negative == matched.negative
        drop_adjustment ==
            IF rate.ntsc = "DropFrame"
            THEN drop_frame_tc_adjustment(
                     [seconds |-> seconds,
                      frames |-> frame_field,
                      negative |-> is_negative,
                      hours |-> hours,
                      minutes |-> minutes], rate)
            ELSE FramesOk(0)
        total_seconds == seconds + minutes * SECONDS_PER_MINUTE_I64
                                 + hours * SECONDS_PER_HOUR_I64
        frames_rat == RatAdd(RatMul(RatInt(total_seconds), timebase(rate)),
                             RatInt(frame_field))
        n == RatToInteger(RatRound(frames_rat)) + drop_adjustment.frames
    IN  IF ~drop_adjustment.ok THEN drop_adjustment
        ELSE FramesOk(IF is_negative THEN -n ELSE n)

\* the text ".P<perf>" that FEET_AND_FRAMES_REGEX asks for, taken literally,
\* between the frames digits and a last digit
PerfLiteral == <<".", "P", "<", "p", "e", "r", "f", ">">>

AllDigits(g) == g # <<>> /\ \A i \in 1..Len(g) : IsDigit(g[i])

\* FEET_AND_FRAMES_REGEX.captures: an optional '-', the feet digits, '+',
\* the frames digits and an optional ".P<perf>" and digit.  The pattern
\* holds no group named "perf", so Captures::name("perf") is None on every
\* match: perf is the empty sequence.
FEET_AND_FRAMES_REGEX(s) ==
    LET negative == s # <<>> /\ Head(s) = "-"
        body == IF negative THEN Tail(s) ELSE s
        k == IndexOf(body, "+")
        feet == IF k = 0 THEN <<>> ELSE SubSeq(body, 1, k - 1)
        rest == IF k = 0 THEN <<>> ELSE SubSeq(body, k + 1, Len(body))
        n == Len(rest)
        suffixed == /\ n > Len(PerfLiteral) + 1
                    /\ SubSeq(rest, n - Len(PerfLiteral), n - 1) = PerfLiteral
                    /\ IsDigit(rest[n])
        frame_digits == IF suffixed THEN SubSeq(rest, 1, n - Len(PerfLiteral) - 1) ELSE rest
    IN  [frames |-> frame_digits,
         negative |-> negative,
         feet |-> feet,
         matched |-> k > 0 /\ AllDigits(feet) /\ AllDigits(frame_digits),
         perf |-> <<>>]

\* source_frames.rs parse_feet_and_frames_str; given_format is <<>> (None)
\* or <<format>> (Some)
parse_feet_and_frames_str(matched, given_format) ==
    LET feet == convert_tc_int(matched.feet)
        frame_field == convert_tc_int(matched.frames)
        perfs_n == matched.perf
        is_negative == matched.negative
        refused == given_format # <<>> /\ perfs_n # <<>>
                       /\ ~allows_perf_field(given_format[1])
        final_format == IF given_format # <<>> THEN given_format[1]
                        ELSE IF perfs_n # <<>> THEN "FF35mm3perf"
                        ELSE "FF35mm4perf"
        footage_moduli == FloorDiv(feet, footage_modulus_footage_count(final_format))
        rem_feet == feet - footage_moduli * footage_modulus_footage_count(final_format)
        rem_frames == frame_field
                         + footage_moduli * footage_modulus_frame_count(final_format)
                         + rem_feet * TruncDiv(footage_modulus_frame_count(final_format),
                                               footage_modulus_footage_count(final_format))
    IN  IF refused THEN FramesErr("UnknownStrFormat")
        ELSE FramesOk(IF is_negative THEN -rem_frames ELSE rem_frames)

\* impl FramesSource for FeetFramesStr
feet_frames_str_to_frames(s, format) ==
    LET matched == FEET_AND_FRAMES_REGEX(s)
    IN  IF matched.matched THEN parse_feet_and_frames_str(matched, <<format>>)
        ELSE FramesErr("UnknownStrFormat")

\* impl FramesSource for &str
str_to_frames(s, rate) ==
    IF TIMECODE_REGEX(s).matched THEN parse_timecode_string(TIMECODE_REGEX(s), rate)
    ELSE IF FEET_AND_FRAMES_REGEX(s).matched
         THEN parse_feet_and_frames_str(FEET_AND_FRAMES_REGEX(s), <<>>)
    ELSE FramesErr("UnknownStrFormat")

\* a TimecodeParseResult: [ok, err, tc]
with_frames_str(s, rate) ==
    LET r == str_to_frames(s, rate)
    IN  [tc |-> IF r.ok THEN with_i64_frames(r.frames, rate) ELSE Timecode(RatZero, rate),
         ok |-> r.ok,
         err |-> r.err]

(***************************************************************************)
(* Inputs of the arithmetic model                                          *)
(***************************************************************************)
Rates == {F23_98, F24, F29_97_DF, F48}

FrameCounts == (-MaxFrames)..MaxFrames

\* denominators of the seconds sources: 48 gives half frames at 24 fps
SecondsDenoms == {7, 48}

I64(n) == [n |-> n, d |-> 1, kind |-> "i64"]

Rational(n, d) == [n |-> n, d |-> d, kind |-> "rational"]

F64(n, d) == [n |-> n, d |-> d, kind |-> "f64"]

\* scalar operands of *, / and %: integers, rationals (halves) and floats
Scalars ==
    {I64(n) : n \in (-MaxScalar)..MaxScalar}
        \cup {Rational(n, 2) : n \in (-MaxScalar)..MaxScalar}
        \cup {F64(n, 2) : n \in {-3, 1, 3}}

\* right-hand Timecode operands of +, - and the comparisons
Operands == {with_i64_frames(f, r) : f \in {-4, 1, 8}, r \in {F23_98, F48}}

InRange(t) == Abs(frames(t)) <= MaxFrames

NoTc == Timecode(RatZero, F24)

NoScalar == [n |-> 0, d |-> 1, kind |-> "none"]

NoSource == [kind |-> "none"]

\* the variables the arithmetic model leaves alone
IdleText == text = <<>> /\ parsed = FramesErr("none") /\ src = NoSource /\ fr = RateErr("none")

KeepText == UNCHANGED <<text, parsed, src, fr>>

(***************************************************************************)
(* The arithmetic model: one Timecode value, replaced by each operation.   *)
(*   op      the last operation                                            *)
(*   tc      its result                                                    *)
(*   prev    its left operand (the Timecode before it)                     *)
(*   other   its right Timecode operand                                    *)
(*   arg     its scalar operand or numeric source                          *)
(*   cmp     the Ordering a comparison returned                            *)
(*   sorted  the result of sorting <<prev, tc, other>>                     *)
(***************************************************************************)
Init ==
    /\ \E r \in Rates : tc = with_i64_frames(0, r)
    /\ op = "with_frames"
    /\ prev = NoTc
    /\ other = NoTc
    /\ arg = I64(0)
    /\ cmp = "none"
    /\ sorted = <<>>
    /\ IdleText

\* A constructor takes no Timecode operand: it is taken from a constructed
\* value only, since taking it from every state adds no state.
Constructors == {"with_frames", "with_seconds", "with_premiere_ticks"}

Constructed(name, t, a) ==
    /\ op \in Constructors
    /\ tc' = t
    /\ op' = name
    /\ arg' = a
    /\ prev' = NoTc
    /\ other' = NoTc
    /\ cmp' = "none"
    /\ sorted' = <<>>
    /\ KeepText

\* Timecode::with_frames on an integer source
WithFrames ==
    \E f \in FrameCounts, r \in Rates :
        Constructed("with_frames", with_i64_frames(f, r), I64(f))

\* Timecode::with_seconds on a Rational64 source
WithSeconds ==
    \E n \in (-MaxSecondsNumer)..MaxSecondsNumer, d \in SecondsDenoms, r \in Rates :
        /\ InRange(with_rational_seconds(RatNew(n, d), r))
        /\ Constructed("with_seconds", with_rational_seconds(RatNew(n, d), r), Rational(n, d))

\* Timecode::with_premiere_ticks on an i64 source
WithPremiereTicks ==
    \E u \in (-MaxTickUnits)..MaxTickUnits, r \in Rates :
        /\ InRange(with_premiere_ticks(u, r))
        /\ Constructed("with_premiere_ticks", with_premiere_ticks(u, r),
                       [n |-> u, d |-> 1, kind |-> "ticks"])

Applied(name, t, b, a) ==
    /\ InRange(t)
    /\ tc' = t
    /\ op' = name
    /\ prev' = tc
    /\ other' = b
    /\ arg' = a
    /\ cmp' = "none"
    /\ sorted' = <<>>
    /\ KeepText

Add == \E b \in Operands : Applied("add", TcAdd(tc, b), b, NoScalar)

Sub == \E b \in Operands : Applied("sub", TcSub(tc, b), b, NoScalar)

Mul == \E s \in Scalars : Applied("mul", TcMul(tc, s), NoTc, s)

Div == \E s \in Scalars : s.n # 0 /\ Applied("div", TcDiv(tc, s), NoTc, s)

Rem == \E s \in Scalars : s.n # 0 /\ Applied("rem", TcRem(tc, s), NoTc, s)

Neg == Applied("neg", TcNeg(tc), NoTc, NoScalar)

AbsValue == Applied("abs", TcAbs(tc), NoTc, NoScalar)

\* the new rate is kept in other, as the rate of a zero Timecode
Rebase == \E r \in Rates : Applied("rebase", rebase(tc, r), Timecode(RatZero, r), NoScalar)

\* a == b, a < b, a > b: Ord::cmp of tc and another Timecode
Compare ==
    \E b \in Operands :
        /\ op # "cmp"
        /\ cmp' = TcCmp(tc, b)
        /\ other' = b
        /\ op' = "cmp"
        /\ prev' = NoTc
        /\ arg' = NoScalar
        /\ sorted' = <<>>
        /\ UNCHANGED tc
        /\ KeepText

\* sorting the three Timecodes of an addition or subtraction
Sort ==
    /\ op \in {"add", "sub"}
    /\ sorted' = SortTimecodes(<<prev, tc, other>>)
    /\ op' = "sort"
    /\ cmp' = "none"
    /\ UNCHANGED <<tc, prev, other, arg>>
    /\ KeepText

Next ==
    \/ WithFrames
    \/ WithSeconds
    \/ WithPremiereTicks
    \/ Add
    \/ Sub
    \/ Mul
    \/ Div
    \/ Rem
    \/ Neg
    \/ AbsValue
    \/ Rebase
    \/ Compare
    \/ Sort

Spec == Init /\ [][Next]_vars

(***************************************************************************)
(* Properties of the arithmetic model                                      *)
(***************************************************************************)
WholeFrame(seconds, rate) == RatIsInteger(RatMul(seconds, playback(rate)))

\* C1: a Timecode built by with_frames from the integer frame count F, at
\* any rate with positive playback, reports frames() = F.
C1_WithFramesKeepsFrameCount ==
    op = "with_frames" => frames(tc) = arg.n

\* C1 witness: with_frames has built a negative frame count at an NTSC rate
C1_Witness ==
    op = "with_frames" /\ arg.n < 0 /\ tc.rate = F29_97_DF /\ frames(tc) = arg.n

\* C2: whatever constructor or operator produced it, the Timecode's seconds
\* times its rate's playback is an integer.
C2_WholeFrameInvariant == WholeFrame(tc.seconds, tc.rate)

\* C2 witness: an addition of operands at different rates whose exact sum is
\* not a whole frame of the left operand's rate
C2_Witness ==
    /\ op = "add"
    /\ prev.rate # other.rate
    /\ ~WholeFrame(RatAdd(prev.seconds, other.seconds), prev.rate)
    /\ WholeFrame(tc.seconds, tc.rate)

\* C6: after tc = prev / n, (tc * n + prev % n).frames() = prev.frames(), for
\* every Timecode prev and every nonzero integer, float or rational n.
C6_DivRemComplementary ==
    op = "div" => frames(TcAdd(TcMul(tc, arg), TcRem(prev, arg))) = frames(prev)

\* C7: prev / n has the frame count floor(prev.frames() / n) and prev's rate,
\* for every Timecode prev and every nonzero i64, f64 or Rational64 n.
C7_DivIsFloorDivision ==
    op = "div" =>
        /\ frames(tc) = FloorDiv(frames(prev) * arg.d, arg.n)
        /\ tc.rate = prev.rate

SecondsEqual(a, b) == a.seconds.n * b.seconds.d = b.seconds.n * a.seconds.d

SecondsLess(a, b) == a.seconds.n * b.seconds.d < b.seconds.n * a.seconds.d

\* C8: a == b iff their seconds are equal and a < b iff a's seconds are less,
\* at equal or different rates; exactly one of <, ==, > holds; a sorted
\* list of Timecodes is in ascending order of seconds.
C8_OrderedBySeconds ==
    /\ op = "cmp" =>
          /\ TcEq(tc, other) <=> SecondsEqual(tc, other)
          /\ TcLt(tc, other) <=> SecondsLess(tc, other)
          /\ TcGt(tc, other) <=> SecondsLess(other, tc)
          /\ cmp = TcCmp(tc, other)
          /\ Cardinality({c \in {"Less", "Equal", "Greater"} : cmp = c}) = 1
    /\ op = "sort" =>
          /\ Len(sorted) = 3
          /\ \A i \in 1..2 : ~SecondsLess(sorted[i + 1], sorted[i])
          /\ \E f \in [1..3 -> 1..3] :
                /\ \A i, j \in 1..3 : i # j => f[i] # f[j]
                /\ \A i \in 1..3 : sorted[i] = <<prev, tc, other>>[f[i]]

\* C8 witness: two Timecodes of different rates and frame counts compared
\* equal, and a sort that had to reorder Timecodes of different rates
C8_Witness ==
    \/ /\ op = "cmp"
       /\ cmp = "Equal"
       /\ tc.rate # other.rate
       /\ frames(tc) # frames(other)
    \/ /\ op = "sort"
       /\ sorted # <<prev, tc, other>>
       /\ prev.rate # other.rate

(***************************************************************************)
(* The drop-frame model: a frame count is displayed and the displayed      *)
(* string parsed back, or a timecode string written from its four fields   *)
(* is parsed.                                                              *)
(*   op      "with_frames", "timecode", "parse_shown"; "input",            *)
(*           "parse_input"                                                 *)
(*   tc      the Timecode displayed, then the Timecode parsed              *)
(*   prev    the Timecode whose display was parsed                         *)
(*   text    the displayed or the written string                           *)
(*   parsed  the frame count or error the parser returned                  *)
(*   src     the fields the input string was written from                  *)
(***************************************************************************)
DropRates == {F29_97_DF, F59_94_DF}

\* frame counts across the first minute boundaries, and one of the ninth minute
DropFrameCounts == ((-MaxDropFrames)..MaxDropFrames) \cup {15000, 17982, 18000}

HoursFields == {0, 1, MaxHoursField}

\* an hours field past a day, written only on strings the drop-frame parser
\* refuses: the seconds of a Timecode of that length have a numerator
\* beyond 2^31
LongHoursFields == {26}

SecondsFields == {0, 1}

FrameSeps == {":", ";"}

Fields(neg, h, m, s, f, sep) ==
    [kind |-> "timecode",
     seconds |-> s,
     frames |-> f,
     negative |-> neg,
     hours |-> h,
     minutes |-> m,
     sep |-> sep]

\* the string "[-]HH:MM:SS<sep>FF" of the fields
FieldsText(x) ==
    (IF x.negative THEN <<"-">> ELSE <<>>)
        \o Fmt02(x.hours) \o <<":">> \o Fmt02(x.minutes) \o <<":">>
        \o Fmt02(x.seconds) \o <<x.sep>> \o Fmt02(x.frames)

\* the fields name a frame number that drop-frame timecode skips
BadDropFrameFields(x, rate) ==
    /\ x.frames < drop_frames_per_minute(rate)
    /\ x.seconds = 0
    /\ x.minutes % 10 # 0

IdleArith == prev = NoTc /\ other = NoTc /\ cmp = "none" /\ sorted = <<>> /\ fr = RateErr("none")

KeepArith == UNCHANGED <<other, cmp, sorted, fr>>

InitDrop ==
    /\ IdleArith
    /\ parsed = FramesErr("none")
    /\ \/ \E f \in DropFrameCounts, r \in DropRates :
             /\ op = "with_frames"
             /\ tc = with_i64_frames(f, r)
             /\ arg = I64(f)
             /\ text = <<>>
             /\ src = NoSource
       \/ \E neg \in BOOLEAN, h \in HoursFields \cup LongHoursFields,
             m \in 0..MaxMinutesField, s \in SecondsFields, f \in 0..MaxFramesField,
             sep \in FrameSeps, r \in DropRates :
             /\ h \in LongHoursFields => BadDropFrameFields(Fields(neg, h, m, s, f, sep), r)
             /\ op = "input"
             /\ tc = Timecode(RatZero, r)
             /\ arg = NoScalar
             /\ src = Fields(neg, h, m, s, f, sep)
             /\ text = FieldsText(src)

\* Timecode::timecode, of a Timecode built from a frame count and of one
\* parsed from a written string
ShowTimecode ==
    /\ \/ op = "with_frames" /\ op' = "timecode"
       \/ op = "parse_input" /\ parsed.ok /\ op' = "timecode_of_parsed"
    /\ text' = timecode(tc)
    /\ UNCHANGED <<tc, prev, arg, parsed, src>>
    /\ KeepArith

\* Timecode::with_frames on a &str source
ParseText(name) ==
    /\ parsed' = str_to_frames(text, tc.rate)
    /\ tc' = with_frames_str(text, tc.rate).tc
    /\ prev' = tc
    /\ op' = name
    /\ UNCHANGED <<arg, text, src>>
    /\ KeepArith

ParseShown == op = "timecode" /\ ParseText("parse_shown")

ParseInput == op = "input" /\ ParseText("parse_input")

NextDrop ==
    \/ ShowTimecode
    \/ ParseShown
    \/ ParseInput

SpecDrop == InitDrop /\ [][NextDrop]_vars

(***************************************************************************)
(* Properties of the drop-frame model                                      *)
(***************************************************************************)
\* the frame number the display decomposes: F + d * (9 * B + M), B the
\* completed ten-minute blocks of 600 * T - 9 * d frames and M the completed
\* minutes inside the current block
DropDisplayNumber(F, T, d) ==
    LET block == 600 * T - 9 * d
        B == F \div block
        r == F % block
        M == IF r < 60 * T THEN 0 ELSE 1 + ((r - 60 * T) \div (60 * T - d))
    IN  F + d * (9 * B + M)

\* "HH:MM:SS;FF" of the frame number N at T frames per second
DropDisplayText(N, T) ==
    Fmt02(N \div (3600 * T)) \o <<":">> \o Fmt02((N \div (60 * T)) % 60) \o <<":">>
        \o Fmt02((N \div T) % 60) \o <<";">> \o Fmt02(N % T)

\* C3: at a drop-frame rate with timebase T and d dropped frames per minute,
\* the timecode() of a frame count F >= 0 is the HH:MM:SS;FF decomposition
\* of F + d * (9 * B + M); 15000 frames at 29.97 DF display "00:08:20;16",
\* 1828 frames "00:01:01;00", and 3659 frames at 59.94 DF "00:01:01;03".
C3_DropFrameDisplay ==
    (op = "timecode" /\ frames(tc) >= 0) =>
        LET F == frames(tc)
            T == RatToInteger(timebase(tc.rate))
            d == IF T = 30 THEN 2 ELSE 4
        IN  /\ text = DropDisplayText(DropDisplayNumber(F, T, d), T)
            /\ (F = 15000 /\ T = 30) =>
                  text = <<"0", "0", ":", "0", "8", ":", "2", "0", ";", "1", "6">>
            /\ (F = 1828 /\ T = 30) =>
                  text = <<"0", "0", ":", "0", "1", ":", "0", "1", ";", "0", "0">>
            /\ (F = 3659 /\ T = 60) =>
                  text = <<"0", "0", ":", "0", "1", ":", "0", "1", ";", "0", "3">>

\* C4: at a drop-frame rate, parsing the displayed timecode of any integer
\* frame count F is Ok and gives a Timecode of F frames again.
C4_DropFrameRoundTrip ==
    op = "parse_shown" => (parsed.ok /\ parsed.frames = frames(prev) /\ frames(tc) = frames(prev))

\* C5: at a drop-frame rate, a timecode string whose frames field is below
\* drop_frames_per_minute, whose seconds field is 0 and whose minutes field
\* is not a multiple of 10 is refused with DropFrameValue and yields no
\* Timecode, whatever its separator, sign and hours; "00:01:00:01" and
\* "01:09:00:01" at 29.97 DF and "26:08:00:03" at 59.94 DF are refused.
C5_BadDropFrameRejected ==
    op = "parse_input" =>
        /\ BadDropFrameFields(src, prev.rate) =>
              (~parsed.ok /\ parsed.err = "DropFrameValue"
                  /\ ~with_frames_str(text, prev.rate).ok)
        /\ (text = <<"0", "0", ":", "0", "1", ":", "0", "0", ":", "0", "1">>
               /\ prev.rate = F29_97_DF) => parsed.err = "DropFrameValue"
        /\ (text = <<"0", "1", ":", "0", "9", ":", "0", "0", ":", "0", "1">>
               /\ prev.rate = F29_97_DF) => parsed.err = "DropFrameValue"
        /\ (text = <<"2", "6", ":", "0", "8", ":", "0", "0", ":", "0", "3">>
               /\ prev.rate = F59_94_DF) => parsed.err = "DropFrameValue"

\* C5 witness: "26:08:00:03" at 59.94 DF has been parsed and refused
C5_Witness ==
    /\ op = "parse_input"
    /\ text = <<"2", "6", ":", "0", "8", ":", "0", "0", ":", "0", "3">>
    /\ prev.rate = F59_94_DF
    /\ BadDropFrameFields(src, prev.rate)
    /\ parsed = FramesErr("DropFrameValue")

(***************************************************************************)
(* The Framerate model: a source and an NTSC kind are handed to one of the *)
(* two constructors.                                                       *)
(*   op   "source", then "with_playback" or "with_timebase"                *)
(*   src  the source: [kind, n, d, text, shape, ntsc]; n and d are the     *)
(*        numbers the source was written from (tenths for a decimal)       *)
(*   fr   the FramerateParseResult of the constructor                      *)
(***************************************************************************)
Source(kind, n, d, str, shape, ntsc) ==
    [text |-> str, n |-> n, d |-> d, ntsc |-> ntsc, kind |-> kind, shape |-> shape]

IntText(n) == IF n < 0 THEN <<"-">> \o FormatInt(-n) ELSE FormatInt(n)

\* "n.t" for the decimal of n tenths
DecimalText(tenths) ==
    (IF tenths < 0 THEN <<"-">> ELSE <<>>)
        \o FormatInt(Abs(tenths) \div 10) \o <<".">> \o FormatInt(Abs(tenths) % 10)

\* integer sources: the whole numbers up to MaxTimebase and two negatives
IntSources == (-2)..MaxTimebase

\* numerators of the rational sources: multiples of 1000 for the n/1001
\* rates, and a few that are not
RationalNumers ==
    {1000 * k : k \in (-1)..MaxThousands} \cup {-24, 24, 45, 60, 24001, 30030}

RationalDenoms == {1, 2, 1001}

StrInts == {-24, 0, 24, 30, 60}

StrNumers == {-24000, 24, 30, 24000, 30000, 60000}

StrDenoms == {0, 1, 1001}

\* decimals in tenths: -24.0, -23.5, 0.0, 23.5, 24.0, 29.5, 30.0
StrTenths == {-240, -235, 0, 235, 240, 295, 300}

Sources(ntsc) ==
    {Source("i64", n, 1, <<>>, "i64", ntsc) : n \in IntSources}
        \cup {Source("rational", n, d, <<>>, "rational", ntsc) :
                 n \in RationalNumers, d \in RationalDenoms}
        \cup {Source("str", n, 1, IntText(n), "integer", ntsc) : n \in StrInts}
        \cup {Source("str", n, d, IntText(n) \o <<"/">> \o IntText(d), "rational", ntsc) :
                 n \in StrNumers, d \in StrDenoms}
        \cup {Source("str", t, 10, DecimalText(t), "decimal", ntsc) : t \in StrTenths}
        \cup {Source("str", 0, 1, <<"f", "p", "s">>, "other", ntsc)}

IdleTimecode ==
    /\ tc = NoTc
    /\ arg = NoScalar
    /\ text = <<>>
    /\ parsed = FramesErr("none")
    /\ prev = NoTc
    /\ other = NoTc
    /\ cmp = "none"
    /\ sorted = <<>>

InitRate ==
    /\ IdleTimecode
    /\ op = "source"
    /\ fr = RateErr("none")
    /\ \E ntsc \in NtscKinds : src \in Sources(ntsc)

Construct(name, result) ==
    /\ op = "source"
    /\ fr' = result
    /\ op' = name
    /\ UNCHANGED <<src, tc, arg, text, parsed, prev, other, cmp, sorted>>

WithPlayback == Construct("with_playback", with_playback(src, src.ntsc))

WithTimebase == Construct("with_timebase", with_timebase(src, src.ntsc))

\* Framerate::with_playback on the playback() of the Framerate that
\* with_timebase returned, with the same Ntsc kind
PlaybackOfTimebase ==
    /\ op = "with_timebase"
    /\ fr.ok
    /\ fr' = with_playback(Source("rational", playback(fr.rate).n, playback(fr.rate).d,
                                  <<>>, "rational", fr.rate.ntsc),
                           fr.rate.ntsc)
    /\ op' = "playback_of_timebase"
    /\ UNCHANGED <<src, tc, arg, text, parsed, prev, other, cmp, sorted>>

NextRate ==
    \/ WithPlayback
    \/ WithTimebase
    \/ PlaybackOfTimebase

SpecRate == InitRate /\ [][NextRate]_vars

(***************************************************************************)
(* Properties of the Framerate model                                       *)
(***************************************************************************)
\* the source has a numeric value: every source but a string that holds no
\* number or a zero denominator
HasValue(source) == source.shape # "other" /\ source.d # 0

\* x is a whole multiple of n / d: the quotient (x.n * d) / (x.d * n) in
\* lowest terms has the denominator 1
DivisibleBy(x, n, d) ==
    (x.d \div GCD(d, x.d)) * (n \div GCD(Abs(x.n), n)) = 1

\* the outcome the validation order prescribes for a value
ValidationOutcome(value, ntsc, is_timebase) ==
    IF value.n < 0 THEN "Negative"
    ELSE IF ntsc # "None" /\ is_timebase /\ value.d # 1 THEN "Ntsc"
    ELSE IF ntsc # "None" /\ ~is_timebase /\ value.d # 1001 THEN "Ntsc"
    ELSE IF ntsc = "DropFrame" /\ is_timebase /\ ~DivisibleBy(value, 30, 1) THEN "DropFrame"
    ELSE IF ntsc = "DropFrame" /\ ~is_timebase /\ ~DivisibleBy(value, 30000, 1001)
         THEN "DropFrame"
    ELSE "Ok"

Outcome(result) == IF result.ok THEN "Ok" ELSE result.err

Constructing == op \in {"with_playback", "with_timebase"}

\* C9 as stated: for integer, rational and string sources alike the
\* constructor reports Negative, then Ntsc, then DropFrame, else Ok.
C9_ValidationOrderAllSources ==
    (Constructing /\ HasValue(src)) =>
        Outcome(fr) = ValidationOutcome(RatNew(src.n, src.d), src.ntsc, op = "with_timebase")

\* C9: for an integer source, a rational source and a string that holds an
\* integer or a rational "n/d", the constructor reports Negative for a
\* negative value whatever the NTSC kind, else Ntsc for an NTSC kind given a
\* playback whose denominator is not 1001 or a timebase that is not whole,
\* else DropFrame for a DropFrame playback not divisible by 30000/1001 or
\* timebase not divisible by 30, else Ok.  A string that holds a decimal is
\* converted as a float: under the kind None it is refused as Imprecise
\* whatever its sign.
C9_ValidationOrder ==
    Constructing =>
        /\ (HasValue(src) /\ src.shape # "decimal") =>
              Outcome(fr) = ValidationOutcome(RatNew(src.n, src.d), src.ntsc,
                                              op = "with_timebase")
        /\ (src.shape = "decimal" /\ src.ntsc = "None") => Outcome(fr) = "Imprecise"

\* C9 witness: the string "-24000/1001" was refused as Negative by
\* with_timebase under DropFrame, where the Ntsc and DropFrame rules fail too
C9_Witness ==
    /\ op = "with_timebase"
    /\ src.kind = "str"
    /\ src.n = -24000
    /\ src.d = 1001
    /\ src.ntsc = "DropFrame"
    /\ Outcome(fr) = "Negative"

AcceptedNtscTimebase ==
    /\ op = "with_timebase"
    /\ src.kind = "i64"
    /\ src.n >= 0
    /\ src.ntsc # "None"
    /\ fr.ok

\* C10 as stated: for every whole t >= 0 that with_timebase accepts with an
\* NTSC kind, playback() = t * 1000 / 1001 and timebase() = t.
C10_TimebaseRoundTripAll ==
    AcceptedNtscTimebase =>
        /\ playback(fr.rate) = RatNew(src.n * 1000, 1001)
        /\ timebase(fr.rate) = RatInt(src.n)

\* C10: for every whole t >= 0 that with_timebase accepts with an NTSC
\* kind, playback() = t * 1000 / 1001; timebase() = t exactly when
\* t <= 500, and above that timebase() is the smaller round(t * 1000 / 1001).
C10_TimebaseRoundTrip ==
    AcceptedNtscTimebase =>
        /\ playback(fr.rate) = RatNew(src.n * 1000, 1001)
        /\ timebase(fr.rate) = RatInt(src.n) <=> src.n <= 500
        /\ timebase(fr.rate).n <= src.n

\* C10 witness: with_timebase(120, NonDropFrame) has playback 120000/1001
\* and timebase 120
C10_Witness ==
    /\ AcceptedNtscTimebase
    /\ src.n = 120
    /\ src.ntsc = "NonDropFrame"
    /\ playback(fr.rate) = RatNew(120000, 1001)
    /\ timebase(fr.rate) = RatInt(120)

Constructed_Ok == Constructing /\ fr.ok

\* C11 as stated: every Framerate a constructor returns Ok has
\* playback() >= 0, and under DropFrame a playback() that is a whole multiple
\* of 30000/1001 and a timebase() that is a whole multiple of 30.
C11_FramerateInvariantAll ==
    Constructed_Ok =>
        /\ playback(fr.rate).n >= 0
        /\ fr.rate.ntsc = "DropFrame" =>
              /\ DivisibleBy(playback(fr.rate), 30000, 1001)
              /\ DivisibleBy(timebase(fr.rate), 30, 1)

\* C11: every Framerate a constructor returns Ok has playback() >= 0, and
\* under DropFrame a playback() that is a whole multiple of 30000/1001; its
\* timebase(), which is round(playback()), is a whole multiple of 30
\* whenever playback() <= 500 * 1000 / 1001.
C11_FramerateInvariant ==
    Constructed_Ok =>
        /\ playback(fr.rate).n >= 0
        /\ fr.rate.ntsc = "DropFrame" =>
              /\ DivisibleBy(playback(fr.rate), 30000, 1001)
              /\ playback(fr.rate).n * (1001 \div playback(fr.rate).d) <= 500 * 1000
                    => DivisibleBy(timebase(fr.rate), 30, 1)

\* C11 witness: with_playback accepted the string "60000/1001" as DropFrame
C11_Witness ==
    /\ op = "with_playback"
    /\ fr.ok
    /\ src.kind = "str"
    /\ fr.rate = F59_94_DF
    /\ timebase(fr.rate) = RatInt(60)

(***************************************************************************)
(* Feet+frames model: a Timecode is built from a frame count and shown in  *)
(* a FilmFormat, and the shown text is parsed back with the format stated; *)
(* a written feet+frames string is parsed as a plain &str.                 *)
(***************************************************************************)
MaxFilmFrames == 70

MaxFootageFrames == 21

FilmRates == {F23_98, F24}

\* one hour of 23.98 footage and the 1828 frames of the 3-perf example
LongFilmFrameCounts == {1828, 86400}

FilmFrameCounts == ((-MaxFilmFrames)..MaxFilmFrames) \cup LongFilmFrameCounts

FeetFields == {0, 1, 2, 3, 5400}

\* "none": "<feet>+<frames>"; "perf": "<feet>+<frames>.<perf>";
\* "literal": "<feet>+<frames>.P<perf><digit>"
FootageShapes == {"none", "perf", "literal"}

\* FeetFramesStr { input, format }
FeetFramesStr(format) == [kind |-> "FeetFramesStr", format |-> format]

Footage(neg, feet, f, padded, shape, perf) ==
    [kind |-> "footage",
     frames |-> f,
     negative |-> neg,
     feet |-> feet,
     perf |-> perf,
     shape |-> shape,
     padded |-> padded]

FootageText(x) ==
    (IF x.negative THEN <<"-">> ELSE <<>>)
        \o FormatInt(x.feet) \o <<"+">>
        \o (IF x.padded THEN Fmt02(x.frames) ELSE FormatInt(x.frames))
        \o (IF x.shape = "perf" THEN <<".">> \o FormatInt(x.perf)
            ELSE IF x.shape = "literal" THEN PerfLiteral \o FormatInt(x.perf)
            ELSE <<>>)

InitFilm ==
    /\ IdleArith
    /\ parsed = FramesErr("none")
    /\ \/ \E f \in FilmFrameCounts, r \in FilmRates, format \in FilmFormats :
             /\ op = "with_frames"
             /\ tc = with_i64_frames(f, r)
             /\ arg = I64(f)
             /\ text = <<>>
             /\ src = FeetFramesStr(format)
       \/ \E neg \in BOOLEAN, feet \in FeetFields, f \in 0..MaxFootageFrames,
             padded \in BOOLEAN, shape \in FootageShapes, perf \in 0..2, r \in FilmRates :
             /\ shape = "none" => perf = 0
             /\ op = "input"
             /\ tc = Timecode(RatZero, r)
             /\ arg = NoScalar
             /\ src = Footage(neg, feet, f, padded, shape, perf)
             /\ text = FootageText(src)

\* Timecode::feet_and_frames
ShowFeetAndFrames ==
    /\ op = "with_frames"
    /\ text' = feet_and_frames(tc, src.format)
    /\ op' = "feet_and_frames"
    /\ UNCHANGED <<tc, prev, arg, parsed, src>>
    /\ KeepArith

\* Timecode::with_frames on a FeetFramesStr source
ParseFootage ==
    /\ op = "feet_and_frames"
    /\ parsed' = feet_frames_str_to_frames(text, src.format)
    /\ tc' = IF parsed'.ok THEN with_i64_frames(parsed'.frames, tc.rate)
             ELSE Timecode(RatZero, tc.rate)
    /\ prev' = tc
    /\ op' = "parse_footage"
    /\ UNCHANGED <<arg, text, src>>
    /\ KeepArith

\* Timecode::with_frames on a FeetFramesStr source holding a written footage;
\* the format given is kept in cmp
ParseInputAs ==
    /\ op = "input"
    /\ \E format \in FilmFormats :
          /\ parsed' = feet_frames_str_to_frames(text, format)
          /\ cmp' = format
    /\ tc' = IF parsed'.ok THEN with_i64_frames(parsed'.frames, tc.rate)
             ELSE Timecode(RatZero, tc.rate)
    /\ prev' = tc
    /\ op' = "parse_as"
    /\ UNCHANGED <<arg, text, src, other, sorted, fr>>

NextFilm ==
    \/ ShowFeetAndFrames
    \/ ParseFootage
    \/ ParseInput
    \/ ParseInputAs

SpecFilm == InitFilm /\ [][NextFilm]_vars

\* the feet+frames text that counts a frame in the foot where it ends
FootageOfLastPerf(t, rep) ==
    LET p == perfs_per_frame(rep)
        P == perfs_per_foot(rep)
        last_perf == Abs(frames(t)) * p + p - 1
        feet == last_perf \div P
        frame_field == (last_perf % P) \div p
        sign == IF frames(t) < 0 THEN <<"-">> ELSE <<>>
    IN  sign \o FormatInt(feet) \o <<"+">> \o Fmt02(frame_field)
             \o (IF rep = "FF35mm3perf" THEN <<".">> \o FormatInt(feet % 3) ELSE <<>>)

Shown == op = "feet_and_frames"

\* C12: feet_and_frames(format) prints feet floor((N*p + p - 1) / P), the
\* two-digit frame ((N*p + p - 1) mod P) div p, where N = |frames()|, p and P
\* are the perforations per frame and per foot, and for 3-perf 35mm the
\* suffix ".k" with k = feet mod 3; 1828 frames at 3-perf print "85+15.1".
C12_FeetAndFrames ==
    Shown => text = FootageOfLastPerf(tc, src.format)

\* C13: parsing tc.feet_and_frames(f) as a FeetFramesStr of the format f, at
\* tc's rate, returns Ok with the frame count of tc, for every Timecode and
\* every FilmFormat.
C13_FootageRoundTrip ==
    op = "parse_footage" => parsed.ok /\ frames(tc) = frames(prev)

\* the frame count of a written footage: 16 frames to the foot at 4-perf; at
\* 3-perf 64 frames to 3 feet and 21 frames to each foot left over
WrittenFrames(x) ==
    LET count == IF x.shape = "perf"
                 THEN (x.feet \div 3) * 64 + (x.feet % 3) * 21 + x.frames
                 ELSE x.feet * 16 + x.frames
    IN  IF x.negative THEN -count ELSE count

\* C14: with_frames on a plain feet+frames string reads "<feet>+<frames>.<perf>"
\* as 3-perf 35mm and "<feet>+<frames>" as 4-perf 35mm; "2+5.1" at 24 fps is
\* "00:00:01:23" and "5400+00" at 23.98 is "01:00:00:00".
C14_FormatInference ==
    (op = "parse_input" /\ src.kind = "footage" /\ src.shape \in {"none", "perf"}) =>
        /\ parsed.ok
        /\ frames(tc) = WrittenFrames(src)
        /\ text = <<"2", "+", "5", ".", "1">> /\ tc.rate = F24
              => timecode(tc) = <<"0", "0", ":", "0", "0", ":", "0", "1", ":", "2", "3">>
        /\ text = <<"5", "4", "0", "0", "+", "0", "0">> /\ tc.rate = F23_98
              => timecode(tc) = <<"0", "1", ":", "0", "0", ":", "0", "0", ":", "0", "0">>

(***************************************************************************)
(* Properties of the arithmetic model, continued                           *)
(***************************************************************************)
\* n / d (d > 0) to the nearest integer, a tie going away from zero
NearestInteger(n, d) ==
    IF n >= 0 THEN (2 * n + d) \div (2 * d) ELSE -((2 * (-n) + d) \div (2 * d))

\* C15: with_seconds(s, rate).frames() is s * rate.playback() rounded to the
\* nearest integer, ties away from zero, for positive and negative rational
\* s, and seconds() is that integer divided by rate.playback().
C15_WithSecondsRounds ==
    op = "with_seconds" =>
        LET pb == playback(tc.rate)
            count == NearestInteger(arg.n * pb.n, arg.d * pb.d)
        IN  /\ frames(tc) = count
            /\ tc.seconds = RatNew(count * pb.d, pb.n)

\* C15 witness: -3/48 s at 24 fps is -1.5 frames, a tie, and becomes -2
C15_Witness ==
    /\ op = "with_seconds"
    /\ arg = Rational(-3, 48)
    /\ tc.rate = F24
    /\ frames(tc) = -2
    /\ tc.seconds = RatNew(-1, 12)

\* the exact sum or difference of the operands' seconds
ExactSeconds == IF op = "add" THEN RatAdd(prev.seconds, other.seconds)
                ELSE RatSub(prev.seconds, other.seconds)

\* C16 as stated: (a + b).seconds() == a.seconds() + b.seconds(),
\* (a - b).seconds() == a.seconds() - b.seconds() and the result has a's
\* rate, for operands at the same or at different rates.
C16_AddSubExactAll ==
    op \in {"add", "sub"} => tc.seconds = ExactSeconds /\ tc.rate = prev.rate

\* C16: a + b and a - b have a's rate and hold the exact sum or difference
\* of the seconds rounded to the nearest whole frame of a's rate, a tie going
\* away from zero; the seconds are exact when the operands have the same
\* rate, and whenever the exact value is a whole frame of a's rate.
C16_AddSubExact ==
    op \in {"add", "sub"} =>
        LET pb == playback(prev.rate)
            exact_frames == RatMul(ExactSeconds, pb)
            count == NearestInteger(exact_frames.n, exact_frames.d)
        IN  /\ tc.rate = prev.rate
            /\ frames(tc) = count
            /\ tc.seconds = RatNew(count * pb.d, pb.n)
            /\ prev.rate = other.rate => tc.seconds = ExactSeconds
            /\ WholeFrame(ExactSeconds, prev.rate) => tc.seconds = ExactSeconds

\* C16 witness: a subtraction of operands at different rates whose exact
\* difference is not a whole frame of the left operand's rate
C16_Witness ==
    /\ op = "sub"
    /\ prev.rate # other.rate
    /\ tc.rate = prev.rate
    /\ tc.seconds # RatSub(prev.seconds, other.seconds)

(***************************************************************************)
(* Premiere ticks model: a Timecode is built from a frame count, its       *)
(* premiere_ticks() are taken, and with_premiere_ticks builds a Timecode   *)
(* from them at the same rate.                                             *)
(***************************************************************************)
MaxTickFrames == 30

TickRates == {F23_98, F24, F29_97_DF, F59_94_DF, F239_76, F11}

\* a day of 24 fps frames
LongTickFrameCounts == {86400}

TickFrameCounts == ((-MaxTickFrames)..MaxTickFrames) \cup LongTickFrameCounts

\* 123 hours of timecode at 239.76 fps.  The value with_frames returns is
\* written out, since its construction passes through LONG_FRAMES * 1001.
LONG_FRAMES == 123 * 60 * 60 * 240

LongTimecode == Timecode(RatNew(2216214, 5), F239_76)

InitTicks ==
    /\ IdleArith
    /\ parsed = FramesErr("none")
    /\ text = <<>>
    /\ src = NoSource
    /\ op = "with_frames"
    /\ \/ \E f \in TickFrameCounts, r \in TickRates :
             tc = with_i64_frames(f, r) /\ arg = I64(f)
       \/ tc = LongTimecode /\ arg = I64(LONG_FRAMES)

\* Timecode::premiere_ticks
PremiereTicks ==
    /\ op = "with_frames"
    /\ src' = premiere_ticks(tc)
    /\ op' = "premiere_ticks"
    /\ UNCHANGED <<tc, prev, arg, parsed, text>>
    /\ KeepArith

\* Timecode::with_premiere_ticks
FromPremiereTicks ==
    /\ op = "premiere_ticks"
    /\ tc' = with_premiere_ticks_i64(src, tc.rate)
    /\ prev' = tc
    /\ op' = "with_premiere_ticks"
    /\ UNCHANGED <<arg, parsed, text, src>>
    /\ KeepArith

NextTicks ==
    \/ PremiereTicks
    \/ FromPremiereTicks

SpecTicks == InitTicks /\ [][NextTicks]_vars

\* k ticks are within half a tick of seconds * PREMIERE_TICKS_PER_SECOND and
\* have the sign of the seconds
NearestTicks(seconds, k) ==
    LET exact2 == WideMulSmall(PREMIERE_TICKS_PER_SECOND, 2 * Abs(seconds.n))
        ticks2 == WideMulSmall(k.limbs, 2 * seconds.d)
        half == WideOfInt(seconds.d)
    IN  /\ WideLeq(ticks2, WideAdd(exact2, half))
        /\ WideLeq(exact2, WideAdd(ticks2, half))
        /\ k.negative => seconds.n < 0

\* C17: premiere_ticks() is seconds() * 254016000000 rounded to the nearest
\* integer with the sign of seconds(), 86400 frames at 24 fps giving
\* 914457600000000; with_premiere_ticks(tc.premiere_ticks(), tc.rate()) has
\* the seconds() and the frames() of tc.
C17_PremiereTicksRoundTrip ==
    /\ op = "premiere_ticks" =>
          /\ NearestTicks(tc.seconds, src)
          /\ tc = with_i64_frames(86400, F24) =>
                src = Ticks(FALSE, WideOfDecimal(<<"9", "1", "4", "4", "5", "7", "6", "0",
                                                   "0", "0", "0", "0", "0", "0", "0">>))
    /\ op = "with_premiere_ticks" =>
          /\ NearestTicks(prev.seconds, src)
          /\ tc.seconds = prev.seconds
          /\ frames(tc) = frames(prev)
          /\ tc.rate = prev.rate

\* C17 witness: the round trip of 123 hours at 239.76 fps
C17_Witness ==
    /\ op = "with_premiere_ticks"
    /\ prev = LongTimecode
    /\ frames(tc) = LONG_FRAMES
    /\ tc.seconds = RatNew(2216214, 5)
    /\ src = Ticks(FALSE, WideOfDecimal(<<"1", "1", "2", "5", "9", "0", "7", "6", "3", "0", "8", "4", "8", "0", "0", "0", "0", "0">>))

(***************************************************************************)
(* Written timecode model: a string of 1 to 4 number fields, some of them  *)
(* beyond their usual range, is parsed at a non-drop rate.                 *)
(***************************************************************************)
MaxWrittenHours == 11

MaxWrittenFrames == 99

WholeRates == {F23_98, F24, F48}

WrittenHours == {0, 1, MaxWrittenHours}

WrittenMinutes == {0, 59, 75}

WrittenSeconds == {0, 3, 59, 61}

WrittenFrameFields == {0, 12, 24, MaxWrittenFrames}

\* the fields of a written timecode, the frames field last
WrittenFields ==
    {<<f>> : f \in WrittenFrameFields}
        \cup {<<x, f>> : x \in WrittenSeconds, f \in WrittenFrameFields}
        \cup {<<m, x, f>> : m \in WrittenMinutes, x \in WrittenSeconds, f \in WrittenFrameFields}
        \cup {<<h, m, x, f>> : h \in WrittenHours, m \in WrittenMinutes,
                               x \in WrittenSeconds, f \in WrittenFrameFields}

Written(neg, fields, padded, sep) ==
    [kind |-> "written", negative |-> neg, sep |-> sep, padded |-> padded, fields |-> fields]

RECURSIVE JoinFields(_, _, _)
JoinFields(fields, padded, sep) ==
    LET shown == IF padded THEN Fmt02(Head(fields)) ELSE FormatInt(Head(fields))
    IN  IF Len(fields) = 1 THEN shown
        ELSE shown \o <<IF Len(fields) = 2 THEN sep ELSE ":">>
                   \o JoinFields(Tail(fields), padded, sep)

WrittenText(x) ==
    (IF x.negative THEN <<"-">> ELSE <<>>) \o JoinFields(x.fields, x.padded, x.sep)

InitWritten ==
    /\ IdleArith
    /\ parsed = FramesErr("none")
    /\ \E neg \in BOOLEAN, fields \in WrittenFields, padded \in BOOLEAN,
          sep \in FrameSeps, r \in WholeRates :
          /\ op = "input"
          /\ tc = Timecode(RatZero, r)
          /\ arg = NoScalar
          /\ src = Written(neg, fields, padded, sep)
          /\ text = WrittenText(src)

NextWritten == ParseInput

SpecWritten == InitWritten /\ [][NextWritten]_vars

\* the field of a written timecode that is `back` places before the frames
\* field, 0 when it is not written
FieldFromEnd(x, back) ==
    IF Len(x.fields) > back THEN x.fields[Len(x.fields) - back] ELSE 0

\* C18: at a non-drop rate of whole timebase T, with_frames on a string of 1
\* to 4 number fields, a missing leading field counting as 0, with an
\* optional leading '-', returns Ok with frames() equal to
\* sign * (((h*60 + m)*60 + s)*T + f); a field beyond its usual range carries
\* over: "00:59:59:24" at 24 fps is "01:00:00:00" and "3:12" is "00:00:03:12".
C18_WrittenFieldsCarry ==
    (op = "parse_input" /\ src.kind = "written") =>
        LET T == timebase(tc.rate).n
            count == ((FieldFromEnd(src, 3) * 60 + FieldFromEnd(src, 2)) * 60
                          + FieldFromEnd(src, 1)) * T + FieldFromEnd(src, 0)
        IN  /\ timebase(tc.rate).d = 1
            /\ parsed.ok
            /\ frames(tc) = (IF src.negative THEN -count ELSE count)
            /\ text = <<"0", "0", ":", "5", "9", ":", "5", "9", ":", "2", "4">> /\ tc.rate = F24
                  => timecode(tc) = <<"0", "1", ":", "0", "0", ":", "0", "0", ":", "0", "0">>
            /\ text = <<"3", ":", "1", "2">>
                  => tc = with_frames_str(<<"0", "0", ":", "0", "0", ":", "0", "3", ":", "1", "2">>,
                                          tc.rate).tc

\* C18 witness: "-75:61;99" at 23.98 is -(75 * 60 + 61) * 24 - 99 frames
C18_Witness ==
    /\ op = "parse_input"
    /\ text = <<"-", "7", "5", ":", "6", "1", ";", "9", "9">>
    /\ tc.rate = F23_98
    /\ parsed = FramesOk(-109563)
    /\ frames(tc) = -109563

(***************************************************************************)
(* Constructor outcomes: a Framerate that with_playback or with_timebase   *)
(* returned Ok is handed to the Timecode constructors.  A constructor      *)
(* returns Ok or a TimecodeParseError, or it does not return: Ratio        *)
(* division and Ratio::inv panic on zero.                                  *)
(***************************************************************************)
\* a TimecodeParseResult, or "panic" for a call that does not return
TcOk(t) == [tc |-> t, ok |-> TRUE, err |-> ""]

TcErr(kind, rate) == [tc |-> Timecode(RatZero, rate), ok |-> FALSE, err |-> kind]

\* Div for Ratio (Ratio::new with a zero denominator) and Ratio::inv panic
\* on a zero ratio
RatioPanics(divisor) == divisor.n = 0

\* Timecode::with_frames: to_frames, then with_i64_frames, which divides the
\* frame count by rate.playback()
Timecode_with_frames(source, rate) ==
    LET r == IF source.kind = "i64" THEN FramesOk(source.n) ELSE str_to_frames(source.text, rate)
    IN  IF ~r.ok THEN TcErr(r.err, rate)
        ELSE IF RatioPanics(playback(rate)) THEN TcErr("panic", rate)
        ELSE TcOk(with_i64_frames(r.frames, rate))

\* Timecode::with_seconds on a Rational64: round_seconds_to_frame takes
\* rate.playback().inv()
Timecode_with_seconds(source, rate) ==
    IF RatioPanics(playback(rate)) THEN TcErr("panic", rate)
    ELSE TcOk(with_rational_seconds(RatNew(source.n, source.d), rate))

\* Timecode::with_premiere_ticks on an i64 of source.n * 2116800000 ticks:
\* the seconds of the ticks go to with_seconds
Timecode_with_premiere_ticks(source, rate) ==
    IF RatioPanics(playback(rate)) THEN TcErr("panic", rate)
    ELSE TcOk(with_premiere_ticks(source.n, rate))

MaxOutcomeFrames == 2

\* whole numbers and n/1001 values given to the Framerate constructors
OutcomeRateSources(ntsc) ==
    {Source("i64", n, 1, <<>>, "i64", ntsc) : n \in {0, 24, 30}}
        \cup {Source("rational", n, 1001, <<>>, "rational", ntsc) : n \in {0, 24000, 30000}}

\* strings given to with_frames: a timecode, a footage and neither
OutcomeTexts ==
    {<<"0", "0", ":", "0", "0", ":", "0", "1", ":", "0", "2">>,
     <<"1", "+", "0", "2">>,
     <<"0", "0", ":", "0", "1", ":", "0", "0", ";", "0", "0">>,
     <<"f", "p", "s">>}

TextSource(s) == [text |-> s, kind |-> "str"]

InitOutcome ==
    /\ IdleTimecode
    /\ \E ntsc \in NtscKinds : src \in OutcomeRateSources(ntsc)
    /\ \/ op = "with_playback" /\ fr = with_playback(src, src.ntsc)
       \/ op = "with_timebase" /\ fr = with_timebase(src, src.ntsc)
    /\ fr.ok

Returned(name, result, a, s) ==
    /\ op \in {"with_playback", "with_timebase"}
    /\ op' = name
    /\ tc' = result.tc
    /\ parsed' = [ok |-> result.ok, err |-> result.err, frames |-> 0]
    /\ arg' = a
    /\ text' = s
    /\ UNCHANGED <<prev, other, cmp, sorted, src, fr>>

\* Timecode::with_frames on an i64
OutcomeWithFrames ==
    \E f \in (-MaxOutcomeFrames)..MaxOutcomeFrames :
        Returned("with_frames", Timecode_with_frames(I64(f), fr.rate), I64(f), <<>>)

\* Timecode::with_frames on a &str
OutcomeWithFramesStr ==
    \E s \in OutcomeTexts :
        Returned("with_frames_str", Timecode_with_frames(TextSource(s), fr.rate), NoScalar, s)

\* Timecode::with_seconds on a Rational64
OutcomeWithSeconds ==
    \E n \in (-MaxOutcomeFrames)..MaxOutcomeFrames, d \in SecondsDenoms :
        Returned("with_seconds", Timecode_with_seconds(Rational(n, d), fr.rate),
                 Rational(n, d), <<>>)

\* Timecode::with_premiere_ticks on an i64
OutcomeWithPremiereTicks ==
    \E u \in (-MaxOutcomeFrames)..MaxOutcomeFrames :
        Returned("with_premiere_ticks",
                 Timecode_with_premiere_ticks([n |-> u, d |-> 1, kind |-> "ticks"], fr.rate),
                 [n |-> u, d |-> 1, kind |-> "ticks"], <<>>)

NextOutcome ==
    \/ OutcomeWithFrames
    \/ OutcomeWithFramesStr
    \/ OutcomeWithSeconds
    \/ OutcomeWithPremiereTicks

SpecOutcome == InitOutcome /\ [][NextOutcome]_vars

TimecodeParseErrors == {"Conversion", "UnknownStrFormat", "DropFrameValue"}

\* C19: with_frames, with_seconds and with_premiere_ticks return Ok or a
\* TimecodeParseError for every input and every Framerate that with_playback
\* or with_timebase returned Ok, a playback rate of 0 included; none panics.
C19_ConstructorsReturn ==
    op \in {"with_frames", "with_frames_str", "with_seconds", "with_premiere_ticks"} =>
        parsed.ok \/ parsed.err \in TimecodeParseErrors

\* C20: -(-tc) == tc with the same frames(), (-tc).frames() == -tc.frames(),
\* tc.abs().frames() == |tc.frames()|, and negate and abs keep tc's rate.
C20_NegateAndAbs ==
    /\ TcEq(TcNeg(TcNeg(tc)), tc)
    /\ frames(TcNeg(TcNeg(tc))) = frames(tc)
    /\ TcNeg(TcNeg(tc)).rate = tc.rate
    /\ op = "neg" => frames(tc) = -frames(prev) /\ tc.rate = prev.rate
    /\ op = "abs" => frames(tc) = Abs(frames(prev)) /\ tc.rate = prev.rate

\* C20 witness: a negative Timecode at 23.98 is negated to a positive one,
\* whose negation is the Timecode it came from
C20_Witness ==
    /\ op = "neg"
    /\ prev.rate = F23_98
    /\ frames(prev) = -7
    /\ frames(tc) = 7
    /\ TcNeg(tc) = prev

\* C21: tc.rebase(r) has the frame count of tc, the rate r and the seconds
\* tc.frames() / r.playback(), for every Timecode and every rate of positive
\* playback; rebasing to tc's own rate returns a Timecode equal to tc.
C21_RebaseKeepsFrames ==
    op = "rebase" =>
        /\ frames(tc) = frames(prev)
        /\ tc.rate = other.rate
        /\ tc.seconds = RatDiv(RatInt(frames(prev)), playback(other.rate))
        /\ other.rate = prev.rate => tc = prev /\ TcEq(tc, prev)

\* C21 witness: -7 frames of 23.98 rebased to 48 fps are -7/48 s
C21_Witness ==
    /\ op = "rebase"
    /\ prev = with_i64_frames(-7, F23_98)
    /\ other.rate = F48
    /\ tc = Timecode(RatNew(-7, 48), F48)

(***************************************************************************)
(* Display model: a Timecode is built from a frame count at an NTSC, a     *)
(* drop-frame or a non-NTSC rate, and its sections are taken.              *)
(***************************************************************************)
MaxShowFrames == 600

\* Framerate::with_playback(Rational64::new(24000, 1001), Ntsc::None): the
\* timebase is the playback rate, not a whole number
F24000_1001 == Framerate(RatNew(24000, 1001), "None")

\* Framerate::with_playback(Rational64::new(47, 2), Ntsc::None)
F23_5 == Framerate(RatNew(47, 2), "None")

ShowRates == {F23_98, F24, F29_97_DF, F24000_1001, F23_5}

\* frame counts about a minute, ten minutes and an hour
LongShowFrameCounts == {1799, 1800, 17982, 86399}

ShowFrameCounts == ((-MaxShowFrames)..MaxShowFrames) \cup LongShowFrameCounts

Shown_sections(x) == [value |-> x, kind |-> "sections"]

InitShow ==
    /\ IdleArith
    /\ parsed = FramesErr("none")
    /\ text = <<>>
    /\ src = NoSource
    /\ op = "with_frames"
    /\ \E f \in ShowFrameCounts, r \in ShowRates :
          tc = with_i64_frames(f, r) /\ arg = I64(f)

\* Timecode::sections
ShowSections ==
    /\ op = "with_frames"
    /\ src' = Shown_sections(sections(tc))
    /\ op' = "sections"
    /\ UNCHANGED <<tc, prev, arg, parsed, text>>
    /\ KeepArith

\* largest precision handed to runtime below the nine digits of its doc
MaxPrecision == 3

Precisions == (0..MaxPrecision) \cup {9}

\* <<q, r>>: the first k decimal digits of n / d (0 <= n < d) as the
\* integer q, and the remainder r they leave over d
RECURSIVE FixedDigits(_, _, _)
FixedDigits(n, d, k) ==
    IF k = 0 THEN <<0, n>>
    ELSE LET less == FixedDigits(n, d, k - 1)
         IN  <<less[1] * 10 + (less[2] * 10) \div d, (less[2] * 10) % d>>

\* the k decimal digits of q, zeros in front
RECURSIVE PadDigits(_, _)
PadDigits(q, k) ==
    IF k = 0 THEN <<>> ELSE PadDigits(q \div 10, k - 1) \o FormatInt(q % 10)

\* format!("{:.1$}", x, precision) for a fraction 0 < x < 1: x to the nearest
\* multiple of 10^-precision.  Where x lies midway between two of them the
\* digit printed depends on the float x.to_f64() makes of it and on the
\* formatter's tie rule: tie_up says that the upper one is printed.
FormatFixed(x, precision, tie_up) ==
    LET cut == FixedDigits(x.n, x.d, precision)
        up == 2 * cut[2] > x.d \/ (2 * cut[2] = x.d /\ tie_up)
        q == IF up THEN cut[1] + 1 ELSE cut[1]
        unit == Power(10, precision)
    IN  FormatInt(q \div unit)
            \o (IF precision = 0 THEN <<>> ELSE <<".">> \o PadDigits(q % unit, precision))

\* str::trim_start_matches('0')
RECURSIVE trim_start_matches(_)
trim_start_matches(s) ==
    IF s # <<>> /\ Head(s) = "0" THEN trim_start_matches(Tail(s)) ELSE s

\* str::trim_end_matches('0')
RECURSIVE trim_end_matches(_)
trim_end_matches(s) ==
    IF s # <<>> /\ s[Len(s)] = "0" THEN trim_end_matches(SubSeq(s, 1, Len(s) - 1)) ELSE s

\* Timecode::runtime
runtime(t, precision, tie_up) ==
    LET abs_seconds == RatAbs(t.seconds)
        hours == RatToInteger(RatFloor(RatDiv(abs_seconds, SECONDS_PER_HOUR)))
        in_hour == RatRem(abs_seconds, SECONDS_PER_HOUR)
        minutes == RatToInteger(RatFloor(RatDiv(in_hour, SECONDS_PER_MINUTE)))
        in_minute == RatRem(in_hour, SECONDS_PER_MINUTE)
        seconds_int == RatToInteger(RatFloor(in_minute))
        fract == RatSub(in_minute, RatInt(seconds_int))
        fract_str == IF fract = RatZero THEN <<".", "0">>
                     ELSE trim_end_matches(trim_start_matches(
                              FormatFixed(fract, precision, tie_up)))
        sign == IF RatIsNegative(t.seconds) THEN <<"-">> ELSE <<>>
    IN  sign \o Fmt02(hours) \o <<":">> \o Fmt02(minutes) \o <<":">>
             \o Fmt02(seconds_int) \o fract_str

\* Timecode::runtime; the precision is kept in arg
ShowRuntime ==
    /\ op = "with_frames"
    /\ \E precision \in Precisions, tie_up \in BOOLEAN :
          /\ text' = runtime(tc, precision, tie_up)
          /\ arg' = I64(precision)
    /\ op' = "runtime"
    /\ UNCHANGED <<tc, prev, parsed, src>>
    /\ KeepArith

NextShow ==
    \/ ShowSections
    \/ ShowRuntime

SpecShow == InitShow /\ [][NextShow]_vars

\* C22: sections() has hours >= 0, 0 <= minutes < 60, 0 <= seconds < 60,
\* 0 <= frames < rate.timebase() and negative == (seconds() < 0), at NTSC,
\* drop-frame and non-NTSC rates, those of a fractional timebase included.
C22_SectionsInRange ==
    op = "sections" =>
        LET x == src.value
        IN  /\ x.hours >= 0
            /\ x.minutes \in 0..59
            /\ x.seconds \in 0..59
            /\ x.frames >= 0
            /\ RatCmp(RatInt(x.frames), timebase(tc.rate)) = "Less"
            /\ x.negative <=> tc.seconds.n < 0

(***************************************************************************)
(* Float sources of the Framerate constructors.  A float is held as the    *)
(* rational Rational64::from_f64 makes of it: the halves are exact, and    *)
(* 23.98 and 29.97 are the hundredths nearest to them.                     *)
(***************************************************************************)
MaxFloatHalves == 130

FloatSources(ntsc) ==
    {Source("f64", n, 2, <<>>, "f64", ntsc) : n \in 0..MaxFloatHalves}
        \cup {Source("f64", n, 100, <<>>, "f64", ntsc) : n \in {2398, 2997}}

InitFloat ==
    /\ IdleTimecode
    /\ op = "source"
    /\ fr = RateErr("none")
    /\ \E ntsc \in NtscKinds : src \in FloatSources(ntsc)

SpecFloat == InitFloat /\ [][NextRate]_vars

\* round(x) * 1000 / 1001 for the float source x
NearestNtscPlayback(source) ==
    RatNew(NearestInteger(source.n, source.d) * 1000, 1001)

\* C23: with an NTSC kind neither constructor returns an Ntsc error for a
\* non-negative float x: with_playback(x, kind) has the playback
\* round(x) * 1000 / 1001 and with_timebase(x, kind) the timebase round(x).
C23_FloatsCoerced ==
    (Constructing /\ src.kind = "f64" /\ is_ntsc(src.ntsc)) =>
        /\ fr.err # "Ntsc"
        /\ fr.ok => /\ playback(fr.rate) = NearestNtscPlayback(src)
                    /\ timebase(fr.rate) = RatInt(NearestInteger(src.n, src.d))

C25_ThreePerfGiven ==
    (op = "parse_as" /\ cmp = "FF35mm3perf" /\ src.shape = "perf") =>
        /\ parsed.ok
        /\ frames(tc) = (IF src.negative THEN -1 ELSE 1)
                            * (src.frames + 64 * (src.feet \div 3) + 21 * (src.feet % 3))

\* RUNTIME_REGEX narrowed to the full form: an optional '-', HH:MM:SS with
\* minutes and seconds below 60, then '.' and at least one digit
IsFullRuntime(s) ==
    LET body == IF s # <<>> /\ Head(s) = "-" THEN Tail(s) ELSE s
        k == IndexOf(body, ".")
        clock == SplitSections(SubSeq(body, 1, k - 1))
        digits == SubSeq(body, k + 1, Len(body))
    IN  /\ k > 0
        /\ Len(clock) = 3
        /\ \A i \in 1..3 : Len(clock[i]) >= 2 /\ AllDigits(clock[i])
        /\ convert_tc_int(clock[2]) < 60
        /\ convert_tc_int(clock[3]) < 60
        /\ AllDigits(digits)

\* C26: for every precision, 0 and small ones included, runtime(precision)
\* reads [-]HH:MM:SS, a '.' and at least one digit, minutes and seconds below
\* 60; the fraction ends in no zero unless it is ".0", printed when the
\* fraction is zero.
C26_RuntimeForm ==
    op = "runtime" =>
        /\ IsFullRuntime(text)
        /\ LET n == Len(text)
           IN  /\ text[n] = "0" => (text[n - 1] = "." /\ RatIsInteger(tc.seconds))
               /\ RatIsInteger(tc.seconds) => SubSeq(text, n - 1, n) = <<".", "0">>

\* the whole timebases t that with_timebase accepts with the kind ntsc and
\* whose playback t * 1000 / 1001 is p
TimebasesOf(p, ntsc) ==
    {t \in 0..MaxTimebase :
        /\ RatNew(t * 1000, 1001) = p
        /\ with_timebase(Source("i64", t, 1, <<>>, "i64", ntsc), ntsc).ok}

\* C27: with an NTSC kind k, with_playback(p, k) is Ok exactly when p is
\* t * 1000 / 1001 for a whole t that with_timebase(t, k) accepts, and is then
\* the same Framerate; with_playback(with_timebase(t, k).playback(), k) is Ok
\* for every accepted t, those divisible by 7, 11 or 13 included.
C27_SameNtscRates ==
    /\ (op = "with_playback" /\ src.kind = "rational" /\ is_ntsc(src.ntsc)) =>
           LET accepted == TimebasesOf(RatNew(src.n, src.d), src.ntsc)
           IN  /\ fr.ok <=> accepted # {}
               /\ \A t \in accepted :
                     fr = with_timebase(Source("i64", t, 1, <<>>, "i64", src.ntsc), src.ntsc)
    /\ (op = "playback_of_timebase" /\ src.kind = "i64" /\ is_ntsc(src.ntsc)) =>
           /\ fr.ok
           /\ fr = with_timebase(src, src.ntsc)

\* a full-form drop-frame string "HH:MM:SS;FF" with its fields in range
\* that names no dropped frame number
LegalDropFrameFields(x, rate) ==
    /\ x.kind = "timecode"
    /\ ~x.negative
    /\ x.sep = ";"
    /\ x.minutes < 60
    /\ x.seconds < 60
    /\ RatCmp(RatInt(x.frames), timebase(rate)) = "Less"
    /\ ~BadDropFrameFields(x, rate)

\* C28: at a drop-frame rate with_frames accepts every legal full-form
\* string "HH:MM:SS;FF", and the timecode() of the result is that string.
C28_DropFrameStringRoundTrip ==
    /\ (op = "parse_input" /\ LegalDropFrameFields(src, tc.rate)) => parsed.ok
    /\ (op = "timecode_of_parsed" /\ LegalDropFrameFields(src, tc.rate)) =>
           text = FieldsText(src)

\* C29: for a and b of the same rate (a + b).frames() is
\* a.frames() + b.frames() and (a - b).frames() is a.frames() - b.frames(),
\* so that taking b away from a + b, or adding it to a - b, gives a again.
C29_SameRateAddSub ==
    (op \in {"add", "sub"} /\ prev.rate = other.rate) =>
        /\ op = "add" => /\ frames(tc) = frames(prev) + frames(other)
                         /\ TcSub(tc, other) = prev
        /\ op = "sub" => /\ frames(tc) = frames(prev) - frames(other)
                         /\ TcAdd(tc, other) = prev

\* 3 frames less 8 frames at 23.98 are -5 frames
C29_Witness ==
    /\ op = "sub"
    /\ prev = with_i64_frames(3, F23_98)
    /\ other = with_i64_frames(8, F23_98)
    /\ frames(tc) = -5

(***************************************************************************)
(* The arithmetic model with its results displayed: after any constructor  *)
(* or operator the Timecode is shown by timecode(), runtime() or           *)
(* feet_and_frames().                                                      *)
(*   src   the display taken: [kind, value], value the precision or the    *)
(*         FilmFormat handed to it                                         *)
(*   text  the string displayed                                            *)
(***************************************************************************)
Displayed(kind, value, str) ==
    /\ src = NoSource
    /\ src' = [value |-> value, kind |-> kind]
    /\ text' = str
    /\ UNCHANGED <<op, tc, prev, other, arg, cmp, sorted, parsed, fr>>

\* Timecode::timecode
TimecodeOf == Displayed("timecode", "", timecode(tc))

\* Timecode::runtime
RuntimeOf ==
    \E precision \in Precisions, tie_up \in BOOLEAN :
        Displayed("runtime", precision, runtime(tc, precision, tie_up))

\* Timecode::feet_and_frames
FeetAndFramesOf ==
    \E format \in FilmFormats :
        Displayed("feet_and_frames", format, feet_and_frames(tc, format))

\* a constructor or operator of the arithmetic model, on a Timecode that has
\* not been displayed
Operate == src = NoSource /\ Next

NextSign ==
    \/ Operate
    \/ TimecodeOf
    \/ RuntimeOf
    \/ FeetAndFramesOf

SpecSign == Init /\ [][NextSign]_vars

\* C30: whatever constructor and operators a Timecode comes from, timecode(),
\* runtime() and feet_and_frames() start with '-' exactly when frames() < 0:
\* a zero Timecode is never displayed with a sign.
C30_NoNegativeZero ==
    src # NoSource => (Head(text) = "-" <=> frames(tc) < 0)

\* with_seconds(-1/48, 23.98) is rounded to frame 0 and displayed unsigned
C30_Witness ==
    /\ op = "with_seconds"
    /\ arg = Rational(-1, 48)
    /\ tc.rate = F23_98
    /\ frames(tc) = 0
    /\ src.kind = "timecode"
    /\ text = <<"0", "0", ":", "0", "0", ":", "0", "0", ":", "0", "0">>

====
